---------------------------- MODULE Spec2Model ----------------------------
(***************************************************************************)
(* A model of the TODO API (backend/src): the Task entity, the file        *)
(* datasource, the tasks repository and the request handlers.              *)
(*                                                                         *)
(* A request is a process: every `await` of a file-system call is a step,  *)
(* and the synchronous code that follows it (up to the next file-system    *)
(* call) belongs to that step.  fs.readFile, fs.writeFile and fs.access    *)
(* are taken to be atomic.  Timestamps are the integer milliseconds of     *)
(* Date.now(): toISOString() prints exactly these milliseconds and         *)
(* new Date(string) reads them back, so a timestamp is kept as its integer.*)
(* uuidv4() is taken to return an id that was never returned before.       *)
(***************************************************************************)
EXTENDS Integers, Sequences, FiniteSets, TLC

(***************************************************************************)
(* Bounds of the model.                                                    *)
(***************************************************************************)
\* the wall clock reads 0 to MaxTime
MaxTime == 1
\* at most MaxUuid ids are generated, so at most MaxUuid tasks are created
MaxUuid == 2

\* Task.validate: 'Text must not exceed 100 characters'
MaxTextLength == 100

(***************************************************************************)
(* JavaScript values as they arrive in a JSON body: undefined (the key is  *)
(* absent), a string (a sequence of characters) or a boolean.              *)
(***************************************************************************)
Undefined == [t |-> "undefined", s |-> <<>>, b |-> FALSE]

Str(s) == [t |-> "string", s |-> s, b |-> FALSE]

Bool(b) == [t |-> "boolean", s |-> <<>>, b |-> b]

\* !!v
Truthy(v) == (v.t = "string" /\ v.s # <<>>) \/ (v.t = "boolean" /\ v.b)

\* Boolean(v)
ToBoolean(v) == Bool(Truthy(v))

(***************************************************************************)
(* Strings.  A string is kept as its runs: <<[c |-> "a", n |-> 3]>> is     *)
(* "aaa", and no two neighbouring runs are of the same character, so that  *)
(* two strings are equal exactly when their runs are.  The characters are  *)
(* "a", "A", "b", "B" and " ", and "y" in a string that is no text.        *)
(***************************************************************************)
\* n copies of the character c
Rep(c, n) == IF n = 0 THEN <<>> ELSE <<[c |-> c, n |-> n]>>

\* runs put together: neighbouring runs of one character become one run
RECURSIVE Pack(_)
Pack(runs) ==
    IF Len(runs) < 2 THEN runs
    ELSE IF runs[1].c = runs[2].c
         THEN Pack(<<[c |-> runs[1].c, n |-> runs[1].n + runs[2].n]>>
                   \o SubSeq(runs, 3, Len(runs)))
         ELSE <<runs[1]>> \o Pack(Tail(runs))

\* s1 + s2
Concat(s1, s2) == Pack(s1 \o s2)

\* s.length
RECURSIVE Length(_)
Length(s) == IF s = <<>> THEN 0 ELSE Head(s).n + Length(Tail(s))

\* String.prototype.toLowerCase, one character
LowerChar(c) == IF c = "A" THEN "a" ELSE IF c = "B" THEN "b" ELSE c

\* String.prototype.toLowerCase
ToLowerCase(s) == Pack([i \in DOMAIN s |-> [c |-> LowerChar(s[i].c), n |-> s[i].n]])

MinOf(S) == CHOOSE x \in S : \A y \in S : x <= y

MaxOf(S) == CHOOSE x \in S : \A y \in S : x >= y

\* String.prototype.trim: white space is removed from both ends
Trim(s) ==
    LET inked == {i \in DOMAIN s : s[i].c # " "}
    IN  IF inked = {} THEN <<>> ELSE SubSeq(s, MinOf(inked), MaxOf(inked))

\* the key of the duplicate rule: text.toLowerCase().trim()
NormText(s) == Trim(ToLowerCase(s))

(***************************************************************************)
(* Task (models/task.model.js).  NoValue stands for a key that is absent   *)
(* from the constructor's data (id, createdAt, updatedAt).                 *)
(***************************************************************************)
NoValue == -1

\* the data of a constructor call that carries text and completed only
TaskData(text, completed) ==
    [id |-> NoValue, text |-> text, completed |-> completed,
     createdAt |-> NoValue, updatedAt |-> NoValue]

\* new Task(data): uuid is what uuidv4() returns, t1 and t2 are the clock at
\* the first and at the second `new Date()`
NewTask(data, uuid, t1, t2) ==
    [id        |-> IF data.id # NoValue THEN data.id ELSE uuid,
     text      |-> IF Truthy(data.text) THEN data.text ELSE Str(<<>>),
     completed |-> IF Truthy(data.completed) THEN data.completed ELSE Bool(FALSE),
     createdAt |-> IF data.createdAt # NoValue THEN data.createdAt ELSE t1,
     updatedAt |-> IF data.updatedAt # NoValue THEN data.updatedAt ELSE t2]

\* (mutant) the constructor stamps createdAt anew instead of keeping the
\* stored one
FromJSONRestamped(data) == NewTask([data EXCEPT !.createdAt = NoValue], NoValue, 0, 0)

\* Task.fromJSON(data) of a stored task: no key is absent, so neither uuidv4()
\* nor the clock decides a field
FromJSON(data) == NewTask(data, NoValue, NoValue, NoValue)

\* (mutant) validate() without the rule of 100 characters
ValidateErrorsAnyLength(task) ==
    (IF ~Truthy(task.text) \/ task.text.t # "string"
        THEN <<"Text is required and must be a string">> ELSE <<>>)
    \o (IF Length(Trim(task.text.s)) = 0
        THEN <<"Text cannot be empty">> ELSE <<>>)
    \o (IF task.completed.t # "boolean"
        THEN <<"Completed must be a boolean value">> ELSE <<>>)

\* Task.validate().errors; text is a string here (the handlers reject any
\* other type before a Task is built)
ValidateErrors(task) ==
    (IF ~Truthy(task.text) \/ task.text.t # "string"
        THEN <<"Text is required and must be a string">> ELSE <<>>)
    \o (IF Length(task.text.s) > MaxTextLength
        THEN <<"Text must not exceed 100 characters">> ELSE <<>>)
    \o (IF Length(Trim(task.text.s)) = 0
        THEN <<"Text cannot be empty">> ELSE <<>>)
    \o (IF task.completed.t # "boolean"
        THEN <<"Completed must be a boolean value">> ELSE <<>>)

\* Task.validate().isValid
IsValid(task) == Len(ValidateErrors(task)) = 0

\* validate() throws instead of returning: `this.text.trim()` is the call of
\* undefined when text is no string (the constructor keeps a truthy text of
\* any type)
ValidateThrows(task) == task.text.t # "string"

\* Task.validate(): { isValid, errors }, or a TypeError
Validate(task) ==
    IF ValidateThrows(task)
    THEN [threw |-> TRUE, isValid |-> FALSE, errors |-> <<>>]
    ELSE [threw |-> FALSE, isValid |-> IsValid(task), errors |-> ValidateErrors(task)]

\* validate() has not been called
NoValidation ==
    [called |-> FALSE, data |-> TaskData(Undefined, Undefined),
     task |-> NewTask(TaskData(Undefined, Undefined), 0, 0, 0),
     threw |-> FALSE, isValid |-> FALSE, errors |-> <<>>]

\* (mutant) update() without the refresh of updatedAt
UpdateTaskStale(task, updates, t) ==
    [task EXCEPT
        !.text      = IF updates.text.t # "undefined" THEN updates.text ELSE @,
        !.completed = IF updates.completed.t # "undefined" THEN updates.completed ELSE @]

\* Task.update(updates): only text and completed are copied, and only when the
\* key is present; t is the clock
UpdateTask(task, updates, t) ==
    [task EXCEPT
        !.text      = IF updates.text.t # "undefined" THEN updates.text ELSE @,
        !.completed = IF updates.completed.t # "undefined" THEN updates.completed ELSE @,
        !.updatedAt = t]

\* Task.markCompleted()
MarkCompleted(task, t) == [task EXCEPT !.completed = Bool(TRUE), !.updatedAt = t]

\* (mutant) markIncomplete() that leaves completed as it is
MarkIncompleteStuck(task, t) == [task EXCEPT !.updatedAt = t]

\* Task.markIncomplete()
MarkIncomplete(task, t) == [task EXCEPT !.completed = Bool(FALSE), !.updatedAt = t]

(***************************************************************************)
(* The state.                                                              *)
(***************************************************************************)
VARIABLES
    file,          \* the tasks of data/tasks.json, in file order
    fileExists,    \* whether data/tasks.json exists
    initialized,   \* FileDatasource.initialized
    now,           \* the latest reading of the wall clock, in milliseconds
    uuidCount,     \* how many ids uuidv4() has returned
    req,           \* req[p]: the request that slot p is handling, or has answered
    lastWriter,    \* history: the slot whose writeAll was the last one
    track,         \* history: which of "snap" and "prev" are recorded
    prev,          \* history: prev[id] is the last answered request that named id
    query,         \* the pages of a listing that have been fetched so far
    stats,         \* what getStats() has returned
    listing,       \* the request that a list or search handler has answered
    validation,    \* what a call of Task.validate() has returned
    limiter,       \* the rate limiter of the tasks router
    routed,        \* the request that the tasks router has dispatched
    process        \* the responses and the timers of the requests, and the exit

\* the state that the handlers of the tasks API leave alone
outside == <<validation, limiter, routed, process>>

\* the rate limiter before any request: `requests` is the Map of the
\* closure, a function of the client ids that have a key; log is the history
\* of the requests that came to the limiter, each with the client id, the
\* reading of Date.now() and the status (429, or 0 for next())
NoLimiter == [requests |-> <<>>, log |-> <<>>]

\* the router has dispatched no request
NoRoute == [called |-> FALSE, method |-> "GET", path |-> <<>>, handler |-> "none"]

\* the requests that the timeout middleware sees at a time
MaxTimed == 3

\* a request that has not come: pc is where its handler is, timer is whether
\* the timeout of the middleware is pending, headersSent is
\* res.headersSent, and responses are the statuses that were sent
NoTimed == [pc |-> "idle", timer |-> FALSE, headersSent |-> FALSE, responses |-> <<>>]

\* the process runs and no request has come
NoProcess == [exited |-> FALSE, requests |-> [r \in 1..MaxTimed |-> NoTimed]]

\* nothing has happened outside the handlers of the tasks API
OutsideIdle ==
    /\ validation = NoValidation
    /\ limiter = NoLimiter
    /\ routed = NoRoute
    /\ process = NoProcess

vars == <<file, fileExists, initialized, now, uuidCount, req, lastWriter, track, prev, query, stats, listing, outside>>

\* the request slots
Procs == {1, 2}

\* a task that is no task (null)
NoTask ==
    [id |-> NoValue, text |-> Undefined, completed |-> Undefined,
     createdAt |-> NoValue, updatedAt |-> NoValue]

\* a body with no key at all; extra says that the body carries the keys id
\* and createdAt, with values of its own
NoBody == [text |-> Undefined, completed |-> Undefined, extra |-> FALSE]

\* an updates object with neither text nor completed
NoUpdates == [text |-> Undefined, completed |-> Undefined]

\* the ids of an array of tasks
IdsOf(tasks) == {tasks[i].id : i \in DOMAIN tasks}

\* tasks.findIndex(task => task.id === id), 1-based; 0 stands for -1
FindIndex(tasks, id) ==
    IF \E i \in DOMAIN tasks : tasks[i].id = id
        THEN MinOf({i \in DOMAIN tasks : tasks[i].id = id})
        ELSE 0

\* tasks.find(task => task.id === id) || null
Find(tasks, id) ==
    IF FindIndex(tasks, id) = 0 THEN NoTask ELSE tasks[FindIndex(tasks, id)]

\* { ...stored, ...updates }: every key of updates overrides the stored one
Spread(stored, updates) ==
    [k \in DOMAIN stored \cup DOMAIN updates |->
        IF k \in DOMAIN updates THEN updates[k] ELSE stored[k]]

\* tasks.splice(index, 1)
Splice(tasks, index) ==
    SubSeq(tasks, 1, index - 1) \o SubSeq(tasks, index + 1, Len(tasks))

\* (mutant) deleteById without `if (index === -1) return false`: splice(-1, 1)
\* removes the last task
DeleteByIdUnchecked(tasks, id) ==
    LET index == FindIndex(tasks, id)
    IN  [deleted |-> tasks # <<>>,
         tasks |-> Splice(tasks, IF index = 0 THEN Len(tasks) ELSE index)]

\* FileDatasource.deleteById without its file accesses: whether the id was
\* found, and the tasks to write
DeleteById(tasks, id) ==
    LET index == FindIndex(tasks, id)
    IN  [deleted |-> index # 0,
         tasks |-> IF index = 0 THEN tasks ELSE Splice(tasks, index)]

\* (mutant) an includes that looks at the first id only
IncludesFirst(ids, id) == ids # <<>> /\ ids[1] = id

\* ids.includes(id)
Includes(ids, id) == \E i \in DOMAIN ids : ids[i] = id

\* (mutant) the duplicate rule without toLowerCase()
DuplicateExistsCaseSensitive(tasks, text, id) ==
    \E i \in DOMAIN tasks :
        /\ tasks[i].id # id
        /\ Trim(tasks[i].text.s) = Trim(text.s)

\* (mutant) the duplicate rule of updateTask without `existing.id !== id`
DuplicateExistsOwnIncluded(tasks, text, id) ==
    \E i \in DOMAIN tasks : NormText(tasks[i].text.s) = NormText(text.s)

\* existingTasks.some(existing => existing.id !== id &&
\*     existing.text.toLowerCase().trim() === task.text.toLowerCase().trim());
\* createTask passes NoValue as id, which excludes no task
DuplicateExists(tasks, text, id) ==
    \E i \in DOMAIN tasks :
        /\ tasks[i].id # id
        /\ NormText(tasks[i].text.s) = NormText(text.s)

(***************************************************************************)
(* FileDatasource.findWithPagination.                                      *)
(***************************************************************************)
\* null, the default of options.completed
Null == [t |-> "null", s |-> <<>>, b |-> FALSE]

\* the characters of a string, one by one
RECURSIVE Expand(_)
Expand(s) ==
    IF s = <<>> THEN <<>>
    ELSE [i \in 1..Head(s).n |-> Head(s).c] \o Expand(Tail(s))

\* the UTF-16 code unit of a character
CharCode(c) ==
    CASE c = " " -> 32
      [] c = "A" -> 65
      [] c = "B" -> 66
      [] c = "a" -> 97
      [] c = "b" -> 98
      [] c = "y" -> 121

\* x < y of two strings, given by their characters: the code units decide at
\* the first place where they differ, and a proper prefix is less
RECURSIVE CharsLess(_, _)
CharsLess(x, y) ==
    IF y = <<>> THEN FALSE
    ELSE IF x = <<>> THEN TRUE
    ELSE IF Head(x) # Head(y) THEN CharCode(Head(x)) < CharCode(Head(y))
    ELSE CharsLess(Tail(x), Tail(y))

\* text.includes(search)
StrIncludes(text, search) ==
    LET x == Expand(text)
        y == Expand(search)
    IN  \E k \in 0..(Len(x) - Len(y)) : SubSeq(x, k + 1, k + Len(y)) = y

\* the value the comparator compares: the time of a Date, or the lowercased
\* text
SortValue(task, sortBy) ==
    CASE sortBy = "createdAt" -> task.createdAt
      [] sortBy = "updatedAt" -> task.updatedAt
      [] sortBy = "text" -> Expand(ToLowerCase(task.text.s))

\* aValue < bValue
ValueLess(aValue, bValue, sortBy) ==
    IF sortBy = "text" THEN CharsLess(aValue, bValue) ELSE aValue < bValue

\* the comparator of tasks.sort: 1 or -1, never 0
Comparator(a, b, options) ==
    LET aValue == SortValue(a, options.sortBy)
        bValue == SortValue(b, options.sortBy)
    IN  IF options.sortOrder = "asc"
        THEN (IF ValueLess(bValue, aValue, options.sortBy) THEN 1 ELSE -1)
        ELSE (IF ValueLess(aValue, bValue, options.sortBy) THEN 1 ELSE -1)

(***************************************************************************)
(* Array.prototype.sort as the engine (V8) runs it on an array of fewer    *)
(* than 64 elements: the run at the start of the array is found, reversed  *)
(* when it descends, and the other elements are put into it by binary      *)
(* insertion.  The comparator above gives -1 both ways for two equal       *)
(* values, so the order of equal values is what this algorithm makes of    *)
(* it; it is the same in every call on the same array.                     *)
(***************************************************************************)
\* the length of the run that starts the array, idx being the next place to
\* look at
RECURSIVE RunEnd(_, _, _, _)
RunEnd(a, idx, descending, options) ==
    IF idx > Len(a) THEN Len(a)
    ELSE LET order == Comparator(a[idx], a[idx - 1], options)
         IN  IF (descending /\ order >= 0) \/ (~descending /\ order < 0)
             THEN idx - 1
             ELSE RunEnd(a, idx + 1, descending, options)

\* the array with its first n elements in reverse order
ReverseRange(a, n) == [i \in 1..Len(a) |-> IF i <= n THEN a[n + 1 - i] ELSE a[i]]

\* the first run, made ascending; the array has two elements or more
CountAndMakeRun(a, options) ==
    LET descending == Comparator(a[2], a[1], options) < 0
        n == RunEnd(a, 3, descending, options)
    IN  [run |-> n, a |-> IF descending THEN ReverseRange(a, n) ELSE a]

\* the place of pivot among the elements left..right-1 (counted from 0)
RECURSIVE FindSlot(_, _, _, _, _)
FindSlot(a, pivot, left, right, options) ==
    IF left >= right THEN left
    ELSE LET mid == left + ((right - left) \div 2)
         IN  IF Comparator(pivot, a[mid + 1], options) < 0
             THEN FindSlot(a, pivot, left, mid, options)
             ELSE FindSlot(a, pivot, mid + 1, right, options)

\* the elements from start on (counted from 0) are put into the sorted start
\* of the array, one after the other
RECURSIVE BinaryInsertionSort(_, _, _)
BinaryInsertionSort(a, start, options) ==
    IF start >= Len(a) THEN a
    ELSE LET pivot == a[start + 1]
             left == FindSlot(a, pivot, 0, start, options)
             b == [i \in 1..Len(a) |->
                     IF i - 1 < left THEN a[i]
                     ELSE IF i - 1 = left THEN pivot
                     ELSE IF i - 1 <= start THEN a[i - 1]
                     ELSE a[i]]
         IN  BinaryInsertionSort(b, start + 1, options)

\* tasks.sort(comparator)
ArraySort(a, options) ==
    IF Len(a) < 2 THEN a
    ELSE LET r == CountAndMakeRun(a, options)
         IN  BinaryInsertionSort(r.a, r.run, options)

\* (mutant) a search filter that takes the search term as it is written
MatchesCaseSensitive(task, options) ==
    /\ Truthy(Str(options.search)) =>
           StrIncludes(ToLowerCase(task.text.s), options.search)
    /\ options.completed # Null => task.completed = options.completed

\* the two filters of findWithPagination
Matches(task, options) ==
    /\ Truthy(Str(options.search)) =>
           StrIncludes(ToLowerCase(task.text.s), ToLowerCase(options.search))
    /\ options.completed # Null => task.completed = options.completed

\* (mutant) the quotient rounded down
FloorDiv(total, limit) == total \div limit

\* Math.ceil(total / limit), limit being a positive integer
CeilDiv(total, limit) == (total + limit - 1) \div limit

\* (mutant) an offset that leaves out a page
OffsetOfNextPage(page, limit) == page * limit

\* (page - 1) * limit
Offset(page, limit) == (page - 1) * limit

\* tasks.slice(from, to): the elements from..to-1 (counted from 0) that are
\* there
Slice(tasks, from, to) ==
    IF from >= Len(tasks) THEN <<>>
    ELSE SubSeq(tasks, from + 1, IF to > Len(tasks) THEN Len(tasks) ELSE to)

\* the defaults of the options of findWithPagination
DefaultOptions ==
    [page |-> 1, limit |-> 10, search |-> <<>>, completed |-> Null,
     sortBy |-> "createdAt", sortOrder |-> "desc"]

\* `const { page = 1, ... } = options`: the default for every key that the
\* options do not have
Destructure(options) ==
    [key \in DOMAIN DefaultOptions |->
        IF key \in DOMAIN options THEN options[key] ELSE DefaultOptions[key]]

\* (mutant) a sort that leaves the tasks in the order of the file
FilteredUnsorted(all, options) ==
    SelectSeq(all, LAMBDA task : Matches(task, Destructure(options)))

\* the tasks of findWithPagination before the slice: filtered, then sorted
FilteredSorted(all, options) ==
    ArraySort(SelectSeq(all, LAMBDA task : Matches(task, Destructure(options))),
              Destructure(options))

\* findWithPagination(options) on the tasks that readAll() returns
FindWithPagination(all, options) ==
    LET page == Destructure(options).page
        limit == Destructure(options).limit
        tasks == FilteredSorted(all, options)
        total == Len(tasks)
        offset == Offset(page, limit)
    IN  [tasks |-> Slice(tasks, offset, offset + limit),
         pagination |-> [page |-> page,
                         limit |-> limit,
                         total |-> total,
                         totalPages |-> CeilDiv(total, limit),
                         hasNext |-> page < CeilDiv(total, limit),
                         hasPrev |-> page > 1]]

\* no page has been asked for
NoQuery == [options |-> [page |-> 1], pages |-> <<>>, metas |-> <<>>]

(***************************************************************************)
(* FileDatasource.getStats.  completed / total and the product with 100    *)
(* are IEEE 754 double operations: each gives the double nearest to the    *)
(* exact result, the one with the even mantissa when two are as near.  A   *)
(* positive double is kept as [m, e]: its value is M * 2^e, M being the    *)
(* mantissa, an integer of 53 bits (2^52 <= M < 2^53) that is kept as      *)
(* three limbs m[1], m[2], m[3] of 17, 18 and 18 bits:                     *)
(* M = m[1] * 2^36 + m[2] * 2^18 + m[3].                                   *)
(***************************************************************************)
\* a limb is less than Limb
Limb == 2^18

\* the double 0
Zero == [m |-> <<0, 0, 0>>, e |-> 0]

\* the mantissa m or, when up, the one after it: with a third limb of Limb
\* the carry goes on, and after the last mantissa comes 2^52 with the next
\* exponent
RoundUp(m, e, up) ==
    LET v3 == m[3] + (IF up THEN 1 ELSE 0)
        v2 == m[2] + (v3 \div Limb)
        v1 == m[1] + (v2 \div Limb)
    IN  IF v1 = 2^17
        THEN [m |-> <<2^16, 0, 0>>, e |-> e + 1]
        ELSE [m |-> <<v1, v2 % Limb, v3 % Limb>>, e |-> e]

\* the double nearest to (q + rest) * 2^e, q being an integer of 53 + s bits
\* (1 <= s <= 18) given by its limbs, the first of them of 17 + s bits, and
\* rest a part below 1 of which only sticky, whether it is more than 0, is
\* known: the s lowest bits of q and sticky decide, and a tie goes to the
\* even mantissa
RoundToNearest(q, s, sticky, e) ==
    LET half == 2^(s - 1)
        m == <<q[1] \div 2^s,
               (q[2] \div 2^s) + (q[1] % 2^s) * 2^(18 - s),
               (q[3] \div 2^s) + (q[2] % 2^s) * 2^(18 - s)>>
        low == q[3] % 2^s
        up == \/ low > half
              \/ low = half /\ (sticky \/ m[3] % 2 = 1)
    IN  RoundUp(m, e + s, up)

\* num / den as x * 2^e with x in [1/2, 1): num and den such that
\* den <= 2 * num < 2 * den, and e
RECURSIVE Normalize(_, _, _)
Normalize(num, den, e) ==
    IF num >= den THEN Normalize(num, 2 * den, e + 1)
    ELSE IF 2 * num < den THEN Normalize(2 * num, den, e - 1)
    ELSE [num |-> num, den |-> den, e |-> e]

\* x / y of two integers (x >= 0, 0 < y < 2^12) as a double: 54 bits of the
\* quotient are found by long division, 18 bits at a time, and rounded
Divide(x, y) ==
    IF x = 0 THEN Zero
    ELSE LET f == Normalize(x, y, 0)
             q1 == (f.num * Limb) \div f.den
             r1 == (f.num * Limb) % f.den
             q2 == (r1 * Limb) \div f.den
             r2 == (r1 * Limb) % f.den
             q3 == (r2 * Limb) \div f.den
             r3 == (r2 * Limb) % f.den
         IN  RoundToNearest(<<q1, q2, q3>>, 1, r3 # 0, f.e - 54)

\* d * k of a double and an integer k, 64 <= k < 1024, as a double: the exact
\* product, limb by limb, and rounded
Times(d, k) ==
    IF d = Zero THEN Zero
    ELSE LET p3 == d.m[3] * k
             p2 == d.m[2] * k + (p3 \div Limb)
             p1 == d.m[1] * k + (p2 \div Limb)
             s == CHOOSE n \in 6..10 : 2^(16 + n) <= p1 /\ p1 < 2^(17 + n)
         IN  RoundToNearest(<<p1, p2 % Limb, p3 % Limb>>, s, FALSE, d.e)

\* Math.round(d) of a double below 2^17: the integer part, and one more when
\* the first bit after the point is 1 (a half goes up)
MathRound(d) ==
    IF d = Zero \/ d.e < -53 THEN 0
    ELSE LET point == -d.e - 36
         IN  (d.m[1] \div 2^point) + ((d.m[1] \div 2^(point - 1)) % 2)

\* total > 0 ? Math.round((completed / total) * 100) : 0
CompletionRate(completed, total) ==
    IF total > 0 THEN MathRound(Times(Divide(completed, total), 100)) ELSE 0

\* getStats() on the tasks that readAll() returns
GetStats(tasks) ==
    LET total == Len(tasks)
        completed == Len(SelectSeq(tasks, LAMBDA task : Truthy(task.completed)))
    IN  [called |-> TRUE, total |-> total, completed |-> completed,
         pending |-> total - completed,
         completionRate |-> CompletionRate(completed, total)]

\* getStats() has not been called
NoStats ==
    [called |-> FALSE, total |-> 0, completed |-> 0, pending |-> 0, completionRate |-> 0]

(***************************************************************************)
(* The list and search handlers (TasksController.getAllTasks, searchTasks). *)
(* A query parameter is absent (undefined) or a string.  A number is an     *)
(* integer or NaN.                                                          *)
(***************************************************************************)
\* the default of page
DefaultPage == 1
\* the default of limit
DefaultLimit == 10
\* 'Max 100 items per page'
MaxPageLimit == 100

\* the number n
Num(n) == [nan |-> FALSE, n |-> n]

NaN == [nan |-> TRUE, n |-> 0]

\* x < y of two numbers: false when one of them is NaN
NumLess(x, y) == ~x.nan /\ ~y.nan /\ x.n < y.n

\* Math.min(x, y): NaN when one of them is NaN
MathMin(x, y) == IF x.nan \/ y.nan THEN NaN ELSE IF y.n < x.n THEN y ELSE x

\* x || y of two numbers: NaN and 0 are falsy
OrElse(x, y) == IF x.nan \/ x.n = 0 THEN y ELSE x

\* the digits of the radix 10
Digits == <<"0", "1", "2", "3", "4", "5", "6", "7", "8", "9">>

IsDigit(c) == \E d \in DOMAIN Digits : Digits[d] = c

DigitOf(c) == (CHOOSE d \in DOMAIN Digits : Digits[d] = c) - 1

\* the digits that start a sequence of characters
RECURSIVE LeadingDigits(_)
LeadingDigits(chars) ==
    IF chars = <<>> \/ ~IsDigit(Head(chars)) THEN <<>>
    ELSE <<Head(chars)>> \o LeadingDigits(Tail(chars))

\* the value of a sequence of digits that follows digits of the value acc
RECURSIVE DecimalValue(_, _)
DecimalValue(digits, acc) ==
    IF digits = <<>> THEN acc
    ELSE DecimalValue(Tail(digits), 10 * acc + DigitOf(Head(digits)))

\* Number.prototype.toString of an integer n >= 0, as runs
RECURSIVE NumberToString(_)
NumberToString(n) ==
    IF n < 10 THEN Rep(Digits[n + 1], 1)
    ELSE Concat(NumberToString(n \div 10), Rep(Digits[(n % 10) + 1], 1))

\* parseInt(v, 10): white space at the start is skipped, a sign is read, and
\* the digits up to the first character that is no digit are the value; NaN
\* when there is no digit.  undefined is read as the string 'undefined'.
ParseInt(v) ==
    LET chars == IF v.t = "string" THEN Expand(v.s) ELSE <<"u">>
        inked == {i \in DOMAIN chars : chars[i] # " "}
        trimmed == IF inked = {} THEN <<>>
                   ELSE SubSeq(chars, MinOf(inked), Len(chars))
        signed == trimmed # <<>> /\ Head(trimmed) \in {"-", "+"}
        digits == LeadingDigits(IF signed THEN Tail(trimmed) ELSE trimmed)
    IN  IF digits = <<>> THEN NaN
        ELSE Num((IF signed /\ Head(trimmed) = "-" THEN -1 ELSE 1)
                     * DecimalValue(digits, 0))

\* the string 'true'
TrueString ==
    Str(Concat(Rep("t", 1), Concat(Rep("r", 1), Concat(Rep("u", 1), Rep("e", 1)))))

\* a query with no parameter
NoParams ==
    [page |-> Undefined, limit |-> Undefined, completed |-> Undefined,
     search |-> Undefined, q |-> Undefined]

\* `const { x = d } = req.query`: d when the parameter is absent
Default(v, d) == IF v.t = "undefined" THEN d ELSE v

\* the options that getAllTasks hands to the repository.  The defaults of
\* page and limit are the numbers 1 and 10, which parseInt reads as strings.
GetAllTasksOptions(params) ==
    LET page == ParseInt(Default(params.page, Str(NumberToString(DefaultPage))))
        limit == MathMin(ParseInt(Default(params.limit, Str(NumberToString(DefaultLimit)))),
                         Num(MaxPageLimit))
        search == Default(params.search, Str(<<>>))
        completed == Default(params.completed, Null)
    IN  [page      |-> IF NumLess(page, Num(1)) THEN Num(1) ELSE page,
         limit     |-> IF NumLess(limit, Num(1)) THEN Num(DefaultLimit) ELSE limit,
         search    |-> Trim(search.s),
         completed |-> IF completed = Null THEN Null ELSE Bool(completed = TrueString),
         sortBy    |-> "createdAt",
         sortOrder |-> "desc"]

\* the options that searchTasks hands to the repository, with the key search
\* that TasksRepository.searchTasks adds; q is a string that is not empty
SearchTasksOptions(params) ==
    [page      |-> OrElse(ParseInt(params.page), Num(DefaultPage)),
     limit     |-> MathMin(OrElse(ParseInt(params.limit), Num(DefaultLimit)),
                           Num(MaxPageLimit)),
     search    |-> Trim(params.q.s),
     completed |-> IF params.completed = Null
                       THEN Null ELSE Bool(params.completed = TrueString),
     sortBy    |-> "createdAt",
     sortOrder |-> "desc"]

\* tasks.slice(start, end) of two numbers: NaN counts as 0, a negative index
\* counts from the end, and an index is kept within the array
SliceOf(tasks, start, end) ==
    LET len == Len(tasks)
        Index(x) == IF x.nan THEN 0
                    ELSE IF x.n < 0 THEN (IF len + x.n < 0 THEN 0 ELSE len + x.n)
                    ELSE IF x.n > len THEN len ELSE x.n
    IN  SubSeq(tasks, Index(start) + 1, Index(end))

\* findWithPagination(options) for a page and a limit that are any numbers
\* but a limit of 0: it is FindWithPagination when both are 1 or more
FindWithPaginationOf(all, options) ==
    LET page == options.page
        limit == options.limit
        tasks == ArraySort(SelectSeq(all, LAMBDA task : Matches(task, options)), options)
        total == Len(tasks)
        totalPages == IF limit.nan THEN NaN
                      ELSE IF limit.n < 0 THEN Num(-(total \div (-limit.n)))
                      ELSE Num(CeilDiv(total, limit.n))
        offset == IF page.nan \/ limit.nan THEN NaN ELSE Num(Offset(page.n, limit.n))
        end == IF offset.nan THEN NaN ELSE Num(offset.n + limit.n)
    IN  [tasks |-> SliceOf(tasks, offset, end),
         pagination |-> [page |-> page,
                         limit |-> limit,
                         total |-> total,
                         totalPages |-> totalPages,
                         hasNext |-> NumLess(page, totalPages),
                         hasPrev |-> NumLess(Num(1), page)]]

\* no list or search request has been answered
NoListing ==
    [handler |-> "none", params |-> NoParams, status |-> 0,
     options |-> GetAllTasksOptions(NoParams), tasks |-> <<>>,
     pagination |-> FindWithPaginationOf(<<>>, GetAllTasksOptions(NoParams)).pagination]

(***************************************************************************)
(* A request slot.                                                         *)
(***************************************************************************)
IdleReq ==
    [op |-> "none", pc |-> "idle", initpc |-> "none", id |-> NoValue,
     body |-> NoBody, ids |-> <<>>, updates |-> NoUpdates, task |-> NoTask,
     tasks |-> <<>>, index |-> 0, status |-> 0, data |-> NoTask,
     details |-> <<>>, count |-> 0, writes |-> 0, snap |-> <<>>,
     rsnap |-> <<>>, overlap |-> FALSE, failed |-> "none"]

\* the request as a handler receives it; snap is the collection at that time
\* (history, kept when track says so)
Received(op, id, body, ids) ==
    [IdleReq EXCEPT !.op = op, !.id = id, !.body = body, !.ids = ids,
                    !.snap = IF "snap" \in track THEN file ELSE <<>>]

\* res.status(status).json(...) and the handler returns
Respond(r, status) == [r EXCEPT !.pc = "done", !.status = status]

\* (mutant) a catch that answers 500 whatever the error carries
CatchAll(op, statusCode) == 500

\* the catch of a handler: createTask, updateTask and patchTask answer
\* `error.statusCode || 500`, every other handler answers 500; statusCode is
\* 0 for an error that carries none
Catch(op, statusCode) ==
    IF op \in {"create", "put", "patch"} /\ statusCode # 0 THEN statusCode ELSE 500

\* the repository throws an error that carries statusCode (0: none), and
\* the handler's catch answers
Throw(r, statusCode) == Respond(r, Catch(r.op, statusCode))

\* the handler reaches an `await` of the datasource
Await(r, pc) == [r EXCEPT !.pc = pc]

\* no request but p's is being handled
Alone(p) == \A q \in Procs \ {p} : req[q].pc \in {"idle", "done"}

\* slot p may take a request when fewer than k requests are being handled;
\* a request takes the lowest free slot, and a slot is freed as soon as its
\* answer is sent
CanBegin(p, k) ==
    /\ req[p].pc = "idle"
    /\ \A q \in Procs : req[q].pc # "done" /\ (q < p => req[q].pc # "idle")
    /\ Cardinality({q \in Procs : req[q].pc \notin {"idle", "done"}}) < k

\* history: what is kept of the last answered request that named an id
Summary(r) ==
    [op |-> r.op, status |-> r.status,
     before |-> IF r.op = "toggle" /\ r.status = 200
                    THEN Find(r.snap, r.id).completed ELSE Undefined]

\* history: nothing is known of the last request on any id
NoPrev == [id \in 0..MaxUuid |-> Summary(IdleReq)]

\* what a handler changes when it takes a request
Take(p, r) ==
    /\ req' = [req EXCEPT ![p] = r]
    /\ UNCHANGED <<file, fileExists, initialized, lastWriter, track, prev, query, stats, listing, outside>>

\* the answer of slot p has been sent and the slot is free again
Finish(p) ==
    /\ req[p].pc = "done"
    /\ req' = [req EXCEPT ![p] = IdleReq]
    /\ prev' = IF "prev" \in track /\ req[p].id \in DOMAIN prev
                   THEN [prev EXCEPT ![req[p].id] = Summary(req[p])]
                   ELSE prev
    /\ UNCHANGED <<file, fileExists, initialized, now, uuidCount, lastWriter, track, query, stats, listing, outside>>

\* the server has started and no request has come: the tasks file is there,
\* with no task, or is missing; the clock reads t; tracking is the set of
\* histories that are kept ("snap" of each request, "prev" of each id)
InitAt(t, tracking, exists) ==
    /\ file = <<>>
    /\ fileExists \in exists
    /\ initialized = FALSE
    /\ now = t
    /\ uuidCount = 0
    /\ req = [p \in Procs |-> IdleReq]
    /\ lastWriter = 0
    /\ track = tracking
    /\ prev = NoPrev
    /\ query = NoQuery
    /\ stats = NoStats
    /\ listing = NoListing
    /\ OutsideIdle

Init == InitAt(0, {"snap"}, BOOLEAN)

\* what `new Date()` may read: the clock does not run backwards
ClockReadings == now..MaxTime

(***************************************************************************)
(* The request handlers (controllers/tasks.controller.js) up to their      *)
(* first `await` of the datasource, with the repository code               *)
(* (TasksRepository) that runs before it.                                  *)
(***************************************************************************)
\* POST /api/tasks: TasksController.createTask, then TasksRepository.createTask
\* up to `await this.datasource.readAll()`.  The constructor reads the clock
\* twice: t1 for createdAt, then t2 for updatedAt.
BeginCreate(p, k, body) ==
    /\ CanBegin(p, k)
    /\ LET r == Received("create", NoValue, body, <<>>)
       IN  IF ~Truthy(body.text) \/ body.text.t # "string"
           THEN /\ Take(p, Respond(r, 400))
                /\ UNCHANGED <<now, uuidCount>>
           ELSE /\ uuidCount < MaxUuid
                /\ \E t1 \in ClockReadings : \E t2 \in t1..MaxTime :
                     /\ LET taskData == TaskData(Str(Trim(body.text.s)),
                                            IF Truthy(body.completed)
                                                THEN body.completed ELSE Bool(FALSE))
                            task == NewTask(taskData, uuidCount + 1, t1, t2)
                        IN  /\ Take(p, IF IsValid(task)
                                   THEN Await([r EXCEPT !.task = task], "dupRead")
                                   ELSE Throw([r EXCEPT !.task = task,
                                                 !.details = ValidateErrors(task)], 400))
                            /\ now' = t2
                            /\ uuidCount' = uuidCount + 1

\* PUT /api/tasks/:id: TasksController.updateTask up to the repository's
\* `await this.datasource.findById(id)`
BeginPut(p, k, id, body) ==
    /\ CanBegin(p, k)
    /\ LET r == Received("put", id, body, <<>>)
       IN  Take(p, IF ~Truthy(body.text) \/ body.text.t # "string"
                   THEN Respond(r, 400)
                   ELSE Await([r EXCEPT !.updates =
                                   [text |-> Str(Trim(body.text.s)),
                                    completed |-> ToBoolean(body.completed)]],
                              "find"))
    /\ UNCHANGED <<now, uuidCount>>

\* PATCH /api/tasks/:id: TasksController.patchTask up to the repository's
\* `await this.datasource.findById(id)`
BeginPatch(p, k, id, body) ==
    /\ CanBegin(p, k)
    /\ LET r == Received("patch", id, body, <<>>)
           updates ==
               [text |-> IF body.text.t = "string"
                            THEN Str(Trim(body.text.s)) ELSE Undefined,
                completed |-> IF body.completed.t # "undefined"
                            THEN ToBoolean(body.completed) ELSE Undefined]
       IN  Take(p, IF body.text.t \notin {"undefined", "string"}
                   THEN Respond(r, 400)
                   ELSE IF updates = NoUpdates
                   THEN Respond(r, 400)
                   ELSE Await([r EXCEPT !.updates = updates], "find"))
    /\ UNCHANGED <<now, uuidCount>>

\* PATCH /api/tasks/:id/toggle: TasksController.toggleTaskCompletion
BeginToggle(p, k, id) ==
    /\ CanBegin(p, k)
    /\ Take(p, Await(Received("toggle", id, NoBody, <<>>), "find"))
    /\ UNCHANGED <<now, uuidCount>>

\* GET /api/tasks/:id: TasksController.getTaskById
BeginGet(p, k, id) ==
    /\ CanBegin(p, k)
    /\ Take(p, Await(Received("get", id, NoBody, <<>>), "find"))
    /\ UNCHANGED <<now, uuidCount>>

\* DELETE /api/tasks/:id: TasksController.deleteTask
BeginDelete(p, k, id) ==
    /\ CanBegin(p, k)
    /\ Take(p, Await(Received("delete", id, NoBody, <<>>), "deleteRead"))
    /\ UNCHANGED <<now, uuidCount>>

\* DELETE /api/tasks: TasksController.deleteTasks; ids is the body's array
BeginDeleteMany(p, k, ids) ==
    /\ CanBegin(p, k)
    /\ LET r == Received("deleteMany", NoValue, NoBody, ids)
       IN  Take(p, IF Len(ids) = 0 THEN Respond(r, 400) ELSE Await(r, "manyRead"))
    /\ UNCHANGED <<now, uuidCount>>

\* DELETE /api/tasks/completed: TasksController.deleteCompletedTasks
BeginDeleteCompleted(p, k) ==
    /\ CanBegin(p, k)
    /\ Take(p, Await(Received("deleteCompleted", NoValue, NoBody, <<>>), "completedRead"))
    /\ UNCHANGED <<now, uuidCount>>

(***************************************************************************)
(* FileDatasource.init, which every readAll and writeAll awaits first.     *)
(***************************************************************************)
\* the places where a request awaits the datasource
IoPcs == {"dupRead", "createRead", "createWrite", "find", "updDupRead",
          "updateRead", "updateWrite", "deleteRead", "deleteWrite",
          "manyRead", "manyWrite", "completedRead"}

\* init() up to the outcome of fs.access: the file is there and the datasource
\* is initialized, or it is missing and fs.writeFile is awaited
InitAccess(p) ==
    /\ req[p].pc \in IoPcs
    /\ ~initialized
    /\ req[p].initpc = "none"
    /\ IF fileExists
       THEN /\ initialized' = TRUE
            /\ req' = req
       ELSE /\ initialized' = initialized
            /\ req' = [req EXCEPT ![p].initpc = "write"]
    /\ UNCHANGED <<file, fileExists, now, uuidCount, lastWriter, track, prev, query, stats, listing, outside>>

\* init(): fs.writeFile(tasksFile, '[]'), then this.initialized = true
InitWrite(p) ==
    /\ req[p].initpc = "write"
    /\ file' = <<>>
    /\ fileExists' = TRUE
    /\ initialized' = TRUE
    /\ req' = [req EXCEPT ![p].initpc = "none"]
    /\ lastWriter' = 0
    /\ UNCHANGED <<now, uuidCount, track, prev, query, stats, listing, outside>>

\* the places where the file-system call that a request awaits is the
\* fs.writeFile of writeAll, and those where it is the fs.readFile of readAll
WritePcs == {"createWrite", "updateWrite", "deleteWrite", "manyWrite"}

ReadPcs == IoPcs \ WritePcs

\* (mutant) a readAll whose catch passes every error on
ReturnsEmptyNever(code) == FALSE

\* the catch of readAll: `if (error.code === 'ENOENT') return []`
ReturnsEmpty(code) == code = "ENOENT"

\* `await this.init()` returns at once: request p is at pc and its next
\* file-system call is the read or the write itself, which does not throw,
\* or throws an error for which readAll returns []
Ready(p, pc) ==
    /\ req[p].pc = pc
    /\ initialized
    /\ req[p].initpc = "none"
    /\ (pc \in ReadPcs /\ ~fileExists) => ReturnsEmpty("ENOENT")

\* request p awaits the fs.readFile of readAll, init() having returned
AtRead(p) ==
    /\ req[p].pc \in ReadPcs
    /\ initialized
    /\ req[p].initpc = "none"

\* the errors that the file-system call that request p awaits may throw:
\* fs.readFile throws ENOENT when the file is missing; the mkdir and the
\* writeFile of init, the readFile of a file that is there (JSON.parse as
\* well, with an error that has no code) and the writeFile of writeAll may
\* be refused (EACCES).  init() passes an error of fs.access on to its
\* writeFile, which is refused when the access was.
FsErrors(p) == IF AtRead(p) /\ ~fileExists THEN {"ENOENT"} ELSE {"EACCES"}

\* the file-system call that request p awaits throws an error that the
\* datasource passes on: the repository wraps it in an error without a
\* status, and the handler's catch answers.  Nothing is written and no call
\* is made again.
StorageFails(p) ==
    /\ req[p].pc \in IoPcs
    /\ \E code \in FsErrors(p) :
          /\ ~(AtRead(p) /\ ReturnsEmpty(code))
          /\ req' = [req EXCEPT ![p] = Throw([req[p] EXCEPT !.failed = code,
                                                          !.initpc = "none"], 0)]
    /\ UNCHANGED <<file, fileExists, initialized, now, uuidCount, lastWriter, track, prev, query, stats, listing, outside>>

\* the tasks file is removed (by another program) while no request is
\* being handled
RemoveFile ==
    /\ fileExists
    /\ \A p \in Procs : req[p].pc = "idle"
    /\ fileExists' = FALSE
    /\ file' = <<>>
    /\ UNCHANGED <<initialized, now, uuidCount, req, lastWriter, track, prev, query, stats, listing, outside>>

\* readAll(): the tasks of the file, or [] when the file is missing
\* (fs.readFile throws ENOENT, which the catch of readAll answers with [])
ReadAll == IF fileExists THEN file ELSE <<>>

\* a step of request p that writes nothing and does not read the clock
Step(p, r) ==
    /\ req' = [req EXCEPT ![p] = r]
    /\ UNCHANGED <<file, fileExists, initialized, now, uuidCount, lastWriter, track, prev, query, stats, listing, outside>>

\* a step of request p that writes nothing and has read t on the clock
StepAt(p, r, t) ==
    /\ req' = [req EXCEPT ![p] = r]
    /\ now' = t
    /\ UNCHANGED <<file, fileExists, initialized, uuidCount, lastWriter, track, prev, query, stats, listing, outside>>

\* the read of a datasource method that goes on to write (history: rsnap is
\* what was read)
ReadForWrite(p, r) == Step(p, [r EXCEPT !.rsnap = ReadAll])

\* (mutant) a writeAll that fails when the file is not what the request read
WriteAllIfUnchanged(p, tasks, r) ==
    LET fresh == file = r.rsnap
    IN  /\ file' = IF fresh THEN tasks ELSE file
        /\ fileExists' = (fresh \/ fileExists)
        /\ lastWriter' = IF fresh THEN p ELSE lastWriter
        /\ req' = [q \in Procs |->
                     IF q = p THEN (IF fresh THEN [r EXCEPT !.writes = @ + 1]
                                             ELSE [r EXCEPT !.status = 500])
                     ELSE IF fresh /\ req[q].pc \in {"createWrite", "updateWrite",
                                                      "deleteWrite", "manyWrite"}
                          THEN [req[q] EXCEPT !.overlap = TRUE]
                          ELSE req[q]]
        /\ UNCHANGED <<initialized, now, uuidCount, track, prev, query, stats, listing, outside>>

\* writeAll(tasks) by request p, which becomes r: fs.writeFile makes the file
\* when it is missing (history: p is the last writer, and every other request
\* that has read and not yet written has overlapped with p)
WriteAll(p, tasks, r) ==
    /\ file' = tasks
    /\ fileExists' = TRUE
    /\ lastWriter' = p
    /\ req' = [q \in Procs |->
                 IF q = p THEN [r EXCEPT !.writes = @ + 1]
                 ELSE IF req[q].pc \in {"createWrite", "updateWrite",
                                        "deleteWrite", "manyWrite"}
                      THEN [req[q] EXCEPT !.overlap = TRUE]
                      ELSE req[q]]
    /\ UNCHANGED <<initialized, now, uuidCount, track, prev, query, stats, listing, outside>>

(***************************************************************************)
(* The repository's and the datasource's steps.                            *)
(***************************************************************************)
\* TasksRepository.createTask: `await this.datasource.readAll()` and the
\* duplicate check, up to `await this.datasource.create(task.toJSON())`
RepoDupRead(p) ==
    /\ Ready(p, "dupRead")
    /\ Step(p, IF DuplicateExists(ReadAll, req[p].task.text, NoValue)
               THEN Throw(req[p], 409)
               ELSE Await(req[p], "createRead"))

\* FileDatasource.create: readAll() and tasks.push(taskData)
DsCreateRead(p) ==
    /\ Ready(p, "createRead")
    /\ ReadForWrite(p, Await([req[p] EXCEPT !.tasks = Append(ReadAll, req[p].task)],
                             "createWrite"))

\* FileDatasource.create: writeAll(tasks); the handler answers 201
DsCreateWrite(p) ==
    /\ Ready(p, "createWrite")
    /\ WriteAll(p, req[p].tasks, Respond([req[p] EXCEPT !.data = req[p].task], 201))

\* (mutant) updateTask without its duplicate check
ChecksDuplicateNever(updates) == FALSE

\* TasksRepository.updateTask: `if (updates.text)` guards the duplicate check
ChecksDuplicate(updates) == Truthy(updates.text)

\* (mutant) an updateTask that stores the updated task before it validates it
RepoFindPersistFirst(p) ==
    /\ Ready(p, "find")
    /\ LET r == req[p]
           existing == Find(ReadAll, r.id)
           loaded == FromJSON(existing)
       IN  IF existing = NoTask THEN Step(p, Respond(r, 404))
           ELSE IF r.op = "get" THEN Step(p, Respond([r EXCEPT !.data = loaded], 200))
           ELSE \E t \in ClockReadings :
                LET toggled == IF Truthy(loaded.completed)
                                   THEN MarkIncomplete(loaded, t)
                                   ELSE MarkCompleted(loaded, t)
                    updated == UpdateTask(loaded, r.updates, t)
                IN  IF r.op # "toggle" /\ ~IsValid(updated)
                    THEN /\ t = now
                         /\ WriteAll(p, [ReadAll EXCEPT ![FindIndex(ReadAll, r.id)] =
                                                Spread(@, updated)],
                                     Respond([r EXCEPT !.task = updated,
                                                !.details = ValidateErrors(updated)], 400))
                    ELSE StepAt(p,
                           IF r.op = "toggle"
                               THEN Await([r EXCEPT !.task = toggled], "updateRead")
                           ELSE IF ChecksDuplicate(r.updates)
                               THEN Await([r EXCEPT !.task = updated], "updDupRead")
                           ELSE Await([r EXCEPT !.task = updated], "updateRead"),
                           t)

\* TasksRepository.getTaskById, updateTask and toggleTaskCompletion:
\* `await this.datasource.findById(id)` and what follows it up to the next
\* `await`; update() and mark...() read the clock, once: t
RepoFind(p) ==
    /\ Ready(p, "find")
    /\ LET r == req[p]
           existing == Find(ReadAll, r.id)
           loaded == FromJSON(existing)
       IN  IF existing = NoTask THEN Step(p, Respond(r, 404))
           ELSE IF r.op = "get" THEN Step(p, Respond([r EXCEPT !.data = loaded], 200))
           ELSE \E t \in ClockReadings :
                LET toggled == IF Truthy(loaded.completed)
                                   THEN MarkIncomplete(loaded, t)
                                   ELSE MarkCompleted(loaded, t)
                    updated == UpdateTask(loaded, r.updates, t)
                IN  StepAt(p,
                      IF r.op = "toggle"
                          THEN Await([r EXCEPT !.task = toggled], "updateRead")
                      ELSE IF ~IsValid(updated)
                          THEN Throw([r EXCEPT !.task = updated,
                                        !.details = ValidateErrors(updated)], 400)
                      ELSE IF ChecksDuplicate(r.updates)
                          THEN Await([r EXCEPT !.task = updated], "updDupRead")
                      ELSE Await([r EXCEPT !.task = updated], "updateRead"),
                      t)

\* TasksRepository.updateTask: the duplicate check, which leaves out the
\* task that is updated
RepoUpdDupRead(p) ==
    /\ Ready(p, "updDupRead")
    /\ Step(p, IF DuplicateExists(ReadAll, req[p].task.text, req[p].id)
               THEN Throw(req[p], 409)
               ELSE Await(req[p], "updateRead"))

\* FileDatasource.updateById: readAll(), findIndex and the merge; a missing id
\* returns null, which the handler answers with 404
DsUpdateRead(p) ==
    /\ Ready(p, "updateRead")
    /\ LET r == req[p]
           index == FindIndex(ReadAll, r.id)
       IN  IF index = 0
           THEN Step(p, Respond(r, 404))
           ELSE ReadForWrite(p,
                    Await([r EXCEPT !.index = index,
                                    !.tasks = [ReadAll EXCEPT
                                        ![index] = Spread(ReadAll[index], r.task)]],
                          "updateWrite"))

\* FileDatasource.updateById: writeAll(tasks); the handler answers 200
DsUpdateWrite(p) ==
    /\ Ready(p, "updateWrite")
    /\ WriteAll(p, req[p].tasks,
                Respond([req[p] EXCEPT !.data = req[p].tasks[req[p].index]], 200))

\* FileDatasource.deleteById: readAll(), findIndex and splice; a missing id
\* returns false, which the handler answers with 404
DsDeleteRead(p) ==
    /\ Ready(p, "deleteRead")
    /\ LET r == req[p]
           found == DeleteById(ReadAll, r.id)
       IN  IF ~found.deleted
           THEN Step(p, Respond(r, 404))
           ELSE ReadForWrite(p, Await([r EXCEPT !.tasks = found.tasks], "deleteWrite"))

\* FileDatasource.deleteById: writeAll(tasks); the handler answers 200
DsDeleteWrite(p) ==
    /\ Ready(p, "deleteWrite")
    /\ WriteAll(p, req[p].tasks, Respond(req[p], 200))

\* (mutant) deleteCompletedTasks without its filter: the ids of all tasks
RepoCompletedReadAll(p) ==
    /\ Ready(p, "completedRead")
    /\ LET completedTaskIds == [i \in DOMAIN ReadAll |-> ReadAll[i].id]
       IN  Step(p, IF Len(completedTaskIds) = 0
                   THEN Respond(req[p], 200)
                   ELSE Await([req[p] EXCEPT !.ids = completedTaskIds], "manyRead"))

\* TasksRepository.deleteCompletedTasks: readAll() and the ids of the
\* completed tasks; with none of them the handler answers 200 at once
RepoCompletedRead(p) ==
    /\ Ready(p, "completedRead")
    /\ LET completedTasks == SelectSeq(ReadAll, LAMBDA task : Truthy(task.completed))
           completedTaskIds == [i \in DOMAIN completedTasks |-> completedTasks[i].id]
       IN  Step(p, IF Len(completedTaskIds) = 0
                   THEN Respond(req[p], 200)
                   ELSE Await([req[p] EXCEPT !.ids = completedTaskIds], "manyRead"))

\* FileDatasource.deleteMany: readAll() and the filter
DsDeleteManyRead(p) ==
    /\ Ready(p, "manyRead")
    /\ LET filteredTasks ==
               SelectSeq(ReadAll, LAMBDA task : ~Includes(req[p].ids, task.id))
       IN  ReadForWrite(p, Await([req[p] EXCEPT
                                     !.tasks = filteredTasks,
                                     !.count = Len(ReadAll) - Len(filteredTasks)],
                                 "manyWrite"))

\* what TasksRepository.deleteTasks returns for the request r, which the
\* handler sends as data
DeleteTasksResult(r) == [deletedCount |-> r.count, requestedCount |-> Len(r.ids)]

\* FileDatasource.deleteMany: writeAll(filteredTasks), also when nothing was
\* removed; the handler answers 200 with the count
DsDeleteManyWrite(p) ==
    /\ Ready(p, "manyWrite")
    /\ WriteAll(p, req[p].tasks, Respond(req[p], 200))

(***************************************************************************)
(* The requests of the model.                                              *)
(***************************************************************************)
\* the texts a body may carry (or none)
BodyTexts ==
    {Undefined, Str(<<>>), Str(Rep(" ", 1)), Str(Rep("a", 1)), Str(Rep("A", 1)),
     Str(Concat(Rep(" ", 1), Concat(Rep("a", 1), Rep(" ", 1)))),
     Str(Rep("a", MaxTextLength)), Str(Rep("a", MaxTextLength + 1))}

\* the values of completed a body may carry (or none)
BodyCompleted == {Undefined, Bool(TRUE), Bool(FALSE), Str(Rep("y", 1))}

\* the bodies of POST, PUT and PATCH: every text with every completed, and
\* two bodies that carry the keys id and createdAt as well
Bodies ==
    [text : BodyTexts, completed : BodyCompleted, extra : {FALSE}]
    \cup [text : {Undefined}, completed : {Undefined, Bool(TRUE)}, extra : {TRUE}]

\* the bodies of PUT and PATCH: no text, an empty one, white space, the two
\* cases of a text and a text that is too long, with completed absent or a
\* boolean; a body with a completed that is a string and no text; and the
\* two bodies with the keys id and createdAt
UpdateBodies ==
    {body \in Bodies :
        /\ body.text \in {Undefined, Str(<<>>), Str(Rep(" ", 1)), Str(Rep("a", 1)),
                           Str(Rep("A", 1)), Str(Rep("a", MaxTextLength + 1))}
        /\ body.completed.t = "string" => body.text = Undefined}

\* the ids a request may name: the ids returned so far, and 0, an id that
\* no task has
RequestIds == 0..uuidCount

\* the arrays of ids a bulk delete may carry
IdLists == {<<>>} \cup {<<i>> : i \in RequestIds}
               \cup {<<x[1], x[2]>> : x \in {y \in RequestIds \X RequestIds : y[1] < y[2]}}

(***************************************************************************)
(* Spec: the requests are handled one at a time (no interleaving).         *)
(***************************************************************************)
Next ==
    \/ \E body \in Bodies : BeginCreate(1, 1, body)
    \/ \E id \in RequestIds, body \in UpdateBodies : BeginPut(1, 1, id, body)
    \/ \E id \in RequestIds, body \in UpdateBodies : BeginPatch(1, 1, id, body)
    \/ \E id \in RequestIds : BeginToggle(1, 1, id)
    \/ \E id \in RequestIds : BeginGet(1, 1, id)
    \/ \E id \in RequestIds : BeginDelete(1, 1, id)
    \/ \E ids \in IdLists : BeginDeleteMany(1, 1, ids)
    \/ BeginDeleteCompleted(1, 1)
    \/ Finish(1)
    \/ InitAccess(1)
    \/ InitWrite(1)
    \/ RepoDupRead(1)
    \/ DsCreateRead(1)
    \/ DsCreateWrite(1)
    \/ RepoFind(1)
    \/ RepoUpdDupRead(1)
    \/ DsUpdateRead(1)
    \/ DsUpdateWrite(1)
    \/ DsDeleteRead(1)
    \/ DsDeleteWrite(1)
    \/ RepoCompletedRead(1)
    \/ DsDeleteManyRead(1)
    \/ DsDeleteManyWrite(1)

Spec == Init /\ [][Next]_vars

(***************************************************************************)
(* Properties of Spec.                                                     *)
(***************************************************************************)
\* request slot 1 has answered a request of kind op
Answered(op) == req[1].pc = "done" /\ req[1].op = op

\* the text of a body is a string whose lowercased, trimmed form is that of
\* a task of the collection
IsVariantOfExisting(body, tasks) ==
    /\ body.text.t = "string"
    /\ \E i \in DOMAIN tasks : NormText(tasks[i].text.s) = NormText(body.text.s)

\* C1 as stated: a POST whose text is a case/whitespace variant of the text of
\* a task of the collection is answered 409 and leaves the collection as it was
C1_DuplicateCreateConflicts ==
    (Answered("create") /\ IsVariantOfExisting(req[1].body, req[1].snap))
        => (req[1].status = 409 /\ file = req[1].snap)

\* C1 amended: such a POST never changes the collection and never writes; it
\* is answered 409 when completed is absent or a boolean, and 400 (validation)
\* when completed is a truthy value that is no boolean
C1_DuplicateCreateRejected ==
    (Answered("create") /\ IsVariantOfExisting(req[1].body, req[1].snap))
        => /\ file = req[1].snap
           /\ req[1].writes = 0
           /\ req[1].status =
                IF Truthy(req[1].body.completed) /\ req[1].body.completed.t # "boolean"
                    THEN 400 ELSE 409

\* C1 witness: a POST with a text that differs from the stored text in case or
\* white space was answered 409
C1_Witness ==
    /\ Answered("create")
    /\ req[1].status = 409
    /\ \E i \in DOMAIN req[1].snap :
          /\ req[1].snap[i].text # req[1].body.text
          /\ NormText(req[1].snap[i].text.s) = NormText(req[1].body.text.s)

\* C2: no two tasks of the collection have the same lowercased, trimmed text
C2_NoDuplicateTexts ==
    \A i, j \in DOMAIN file :
        i # j => NormText(file[i].text.s) # NormText(file[j].text.s)

\* C2 witness: two tasks are stored and a PUT or PATCH has just set a text
C2_Witness ==
    /\ Len(file) = 2
    /\ req[1].pc = "done"
    /\ req[1].op \in {"put", "patch"}
    /\ req[1].status = 200
    /\ Truthy(req[1].updates.text)
    /\ Find(file, req[1].id).text # Find(req[1].snap, req[1].id).text

\* what TasksRepository.getTaskById(id) returns on the collection tasks
GetTaskById(tasks, id) ==
    IF Find(tasks, id) = NoTask THEN NoTask ELSE FromJSON(Find(tasks, id))

\* C4 as stated: after a POST answered 201, getTaskById of the returned id
\* yields the text and the completed of the request, an id that no task of the
\* collection had, and createdAt = updatedAt
C4_CreateReadBack ==
    (Answered("create") /\ req[1].status = 201)
        => LET got == GetTaskById(file, req[1].data.id)
           IN  /\ got.text = Str(Trim(req[1].body.text.s))
               /\ got.completed = Bool(req[1].body.completed = Bool(TRUE))
               /\ got.id \notin IdsOf(req[1].snap)
               /\ got.createdAt = got.updatedAt

\* C4 without the timestamps (what does hold of the code)
C4_CreateReadBackButTimes ==
    (Answered("create") /\ req[1].status = 201)
        => LET got == GetTaskById(file, req[1].data.id)
           IN  /\ got.text = Str(Trim(req[1].body.text.s))
               /\ got.completed = Bool(req[1].body.completed = Bool(TRUE))
               /\ got.id \notin IdsOf(req[1].snap)
               /\ got.createdAt <= got.updatedAt

\* request slot 1 has answered 200 to a PUT, a PATCH or a toggle
Updated ==
    /\ req[1].pc = "done"
    /\ req[1].op \in {"put", "patch", "toggle"}
    /\ req[1].status = 200

\* C6 as stated: a PUT, PATCH or toggle answered 200 stores an updatedAt that
\* is greater than the one the task had
C6_UpdatedAtIncreases ==
    Updated => Find(file, req[1].id).updatedAt > Find(req[1].snap, req[1].id).updatedAt

\* C6 amended: a PUT, PATCH or toggle answered 200 stores as updatedAt the
\* time it read on the clock, which is not less than the updatedAt the task
\* had (the clock not running backwards) and may be equal to it
C6_UpdatedAtRefreshed ==
    Updated => /\ Find(file, req[1].id).updatedAt = now
               /\ Find(file, req[1].id).updatedAt >= Find(req[1].snap, req[1].id).updatedAt

\* C6 witness: a toggle answered 200 within the millisecond of the task's
\* last change, so that updatedAt is what it was
C6_Witness ==
    /\ Updated
    /\ req[1].op = "toggle"
    /\ Find(file, req[1].id).updatedAt = Find(req[1].snap, req[1].id).updatedAt

\* C7: a DELETE of an id that no task has is answered 404, writes nothing and
\* leaves the collection as it was
C7_DeleteAbsentNotFound ==
    (Answered("delete") /\ req[1].id \notin IdsOf(req[1].snap))
        => /\ req[1].status = 404
           /\ req[1].writes = 0
           /\ file = req[1].snap

\* C7 witness: a DELETE of an id that no task has was answered, the collection
\* holding a task
C7_Witness ==
    /\ Answered("delete")
    /\ req[1].id \notin IdsOf(req[1].snap)
    /\ req[1].status = 404
    /\ Len(file) > 0

\* the ids of an array of tasks, in order
IdSeq(tasks) == [i \in DOMAIN tasks |-> tasks[i].id]

\* the createdAt of an array of tasks, in order
CreatedAtSeq(tasks) == [i \in DOMAIN tasks |-> tasks[i].createdAt]

\* no two tasks of the collection have the same id
UniqueIds == \A i, j \in DOMAIN file : i # j => file[i].id # file[j].id

\* C10: a write of a PUT, PATCH or toggle leaves the id and the createdAt of
\* every task as they were, whatever keys the body carries; a task keeps its
\* createdAt as long as it is in the collection; and no two tasks of the
\* collection have the same id
C10_IdAndCreatedAtKept ==
    /\ [](UniqueIds)
    /\ [][/\ (req[1].op \in {"put", "patch", "toggle"} /\ file' # file)
              => (IdSeq(file') = IdSeq(file) /\ CreatedAtSeq(file') = CreatedAtSeq(file))
          /\ \A i \in DOMAIN file : \A j \in DOMAIN file' :
              file'[j].id = file[i].id => file'[j].createdAt = file[i].createdAt]_vars

\* C10 witness: a PATCH whose body carries the keys id and createdAt was
\* answered 200 and has changed the task
C10_Witness ==
    /\ Updated
    /\ req[1].body.extra
    /\ Find(file, req[1].id) # Find(req[1].snap, req[1].id)
    /\ Len(file) = 2

\* a task as the specification describes it: a text of 1..100 characters that
\* is not white space only, and a boolean completed
WellFormed(task) ==
    /\ task.text.t = "string"
    /\ Length(task.text.s) \in 1..MaxTextLength
    /\ Trim(task.text.s) # <<>>
    /\ task.completed.t = "boolean"

\* C11: every task of the collection has a text that is a string of 1..100
\* characters, not white space only, and a boolean completed, whatever the
\* bodies of the POST, PUT and PATCH requests that have been handled
C11_StoredTasksWellFormed == \A i \in DOMAIN file : WellFormed(file[i])

\* C11 witness: a task with a text of 100 characters is stored, and a POST,
\* PUT or PATCH was answered 400 with the rules its task violates
C11_Witness ==
    /\ req[1].pc = "done"
    /\ req[1].op \in {"create", "put", "patch"}
    /\ req[1].status = 400
    /\ req[1].details # <<>>
    /\ ~WellFormed(req[1].task)
    /\ \E i \in DOMAIN file : Length(file[i].text.s) = MaxTextLength

\* request slot 1 has answered a PUT or a PATCH that the handler passed on to
\* TasksRepository.updateTask
RepoUpdateAnswered ==
    /\ req[1].pc = "done"
    /\ req[1].op \in {"put", "patch"}
    /\ req[1].updates # NoUpdates

\* a task of tasks other than the one with this id has the lowercased,
\* trimmed text of text
TextOfAnother(tasks, text, id) ==
    \E i \in DOMAIN tasks :
        /\ tasks[i].id # id
        /\ Trim(ToLowerCase(tasks[i].text.s)) = Trim(ToLowerCase(text.s))

\* C12: an updateTask that sets the text to one whose lowercased, trimmed
\* form is that of another task is answered 409 and leaves the collection as
\* it was; one that sets the text to a case variant of the task's own text is
\* no conflict (it is answered 200 and stores the text); one for an id that no
\* task has is answered 404 and writes nothing
C12_UpdateConflicts ==
    RepoUpdateAnswered =>
        LET r == req[1]
            own == Find(r.snap, r.id)
        IN  /\ own = NoTask =>
                  (r.status = 404 /\ r.writes = 0 /\ file = r.snap)
            /\ (own # NoTask /\ r.updates.text.t = "string"
                    /\ TextOfAnother(r.snap, r.updates.text, r.id)) =>
                  (r.status = 409 /\ r.writes = 0 /\ file = r.snap)
            /\ (own # NoTask /\ r.updates.text.t = "string"
                    /\ Trim(ToLowerCase(own.text.s)) = Trim(ToLowerCase(r.updates.text.s))) =>
                  (r.status = 200 /\ Find(file, r.id).text = r.updates.text)

\* C12 witness: a PUT or PATCH whose text differs in case from the text of
\* another task was answered 409
C12_Witness ==
    /\ RepoUpdateAnswered
    /\ req[1].status = 409
    /\ Len(file) = 2
    /\ \E i \in DOMAIN file :
          /\ file[i].id # req[1].id
          /\ file[i].text # req[1].updates.text
          /\ NormText(file[i].text.s) = NormText(req[1].updates.text.s)

\* C14 as stated: a PUT whose body lacks text or lacks completed is answered
\* 400 and leaves the collection as it was
C14_PutRequiresBoth ==
    (Answered("put")
        /\ (req[1].body.text = Undefined \/ req[1].body.completed = Undefined))
        => (req[1].status = 400 /\ file = req[1].snap)

\* what holds of C14: a PUT whose body lacks text is answered 400 and leaves
\* the collection as it was; one that lacks completed only is handled as if
\* completed were false
C14_PutRequiresText ==
    Answered("put") =>
        /\ req[1].body.text = Undefined => (req[1].status = 400 /\ file = req[1].snap)
        /\ (req[1].body.completed = Undefined /\ req[1].status = 200)
              => Find(file, req[1].id).completed = Bool(FALSE)

\* C14 witness: a PUT with a text and without completed was answered 200, and
\* the task, which was completed, is stored as incomplete
C14_Witness ==
    /\ Answered("put")
    /\ req[1].body.completed = Undefined
    /\ req[1].status = 200
    /\ Find(req[1].snap, req[1].id).completed = Bool(TRUE)
    /\ Find(file, req[1].id).completed = Bool(FALSE)

\* the tasks of tasks whose id is none of ids
Without(tasks, ids) ==
    SelectSeq(tasks, LAMBDA task : \A k \in DOMAIN ids : ids[k] # task.id)

\* C15: a bulk delete with a list of ids that is not empty is answered 200,
\* whether or not the ids are ids of tasks; the collection is then the one of
\* before without the tasks whose id is in the list, the other tasks being as
\* they were and in their order; deletedCount is the number of tasks removed,
\* requestedCount the length of the list, and deletedCount <= requestedCount
C15_BulkDeleteExact ==
    (Answered("deleteMany") /\ req[1].ids # <<>>) =>
        LET result == DeleteTasksResult(req[1])
        IN  /\ req[1].status = 200
            /\ file = Without(req[1].snap, req[1].ids)
            /\ result.deletedCount = Len(req[1].snap) - Len(file)
            /\ result.requestedCount = Len(req[1].ids)
            /\ result.deletedCount <= result.requestedCount

\* C15 witness: a bulk delete of two ids, one of a task and one of no task,
\* has removed one of two tasks
C15_Witness ==
    /\ Answered("deleteMany")
    /\ Len(req[1].ids) = 2
    /\ \E k \in DOMAIN req[1].ids : req[1].ids[k] \notin IdsOf(req[1].snap)
    /\ Len(req[1].snap) = 2
    /\ Len(file) = 1
    /\ DeleteTasksResult(req[1]).deletedCount = 1

\* the tasks of tasks that are completed, or that are not
OfCompleted(tasks, completed) ==
    SelectSeq(tasks, LAMBDA task : task.completed = Bool(completed))

\* C16: a DELETE of the completed tasks, no other request being handled, is
\* answered 200; the collection is then the incomplete tasks of before, as
\* they were; deletedCount is the number of completed tasks of before; with
\* no completed task nothing is written and deletedCount is 0
C16_DeleteCompletedExact ==
    Answered("deleteCompleted") =>
        /\ req[1].status = 200
        /\ file = OfCompleted(req[1].snap, FALSE)
        /\ req[1].count = Len(OfCompleted(req[1].snap, TRUE))
        /\ OfCompleted(req[1].snap, TRUE) = <<>> =>
              (file = req[1].snap /\ req[1].count = 0 /\ req[1].writes = 0)

\* C16 witness: of a completed and an incomplete task, the completed one has
\* been removed
C16_Witness ==
    /\ Answered("deleteCompleted")
    /\ Len(req[1].snap) = 2
    /\ Len(file) = 1
    /\ req[1].count = 1
    /\ file[1].completed = Bool(FALSE)

\* C17: a POST, PUT or PATCH that is answered 400 has written nothing, and
\* the collection is as it was when the request came
C17_RejectedBeforeWrite ==
    (req[1].pc = "done" /\ req[1].op \in {"create", "put", "patch"}
        /\ req[1].status = 400)
        => (req[1].writes = 0 /\ file = req[1].snap)

\* C17 witness: a PUT or PATCH of a stored task was answered 400 by the
\* repository, with the rules the updated task violates
C17_Witness ==
    /\ req[1].pc = "done"
    /\ req[1].op \in {"put", "patch"}
    /\ req[1].status = 400
    /\ req[1].details # <<>>
    /\ Find(file, req[1].id) # NoTask
    /\ Len(file) = 2

(***************************************************************************)
(* SpecToggle: creations, toggles, updates and deletions, one at a time,   *)
(* with the history of the last request on each id.  The clock, which has  *)
(* no part in what a toggle stores in completed, stands at MaxTime.         *)
(***************************************************************************)
InitToggle == InitAt(MaxTime, {"snap", "prev"}, BOOLEAN)

\* the bodies of SpecToggle: two texts, completed given or not
ToggleBodies ==
    [text : {Undefined, Str(Rep("a", 1)), Str(Rep("b", 1))},
     completed : {Undefined, Bool(TRUE)}, extra : {FALSE}]

NextToggle ==
    \/ \E body \in ToggleBodies : BeginCreate(1, 1, body)
    \/ \E id \in RequestIds, body \in ToggleBodies : BeginPatch(1, 1, id, body)
    \/ \E id \in RequestIds : BeginToggle(1, 1, id)
    \/ \E id \in RequestIds : BeginDelete(1, 1, id)
    \/ Finish(1)
    \/ InitAccess(1)
    \/ InitWrite(1)
    \/ RepoDupRead(1)
    \/ DsCreateRead(1)
    \/ DsCreateWrite(1)
    \/ RepoFind(1)
    \/ RepoUpdDupRead(1)
    \/ DsUpdateRead(1)
    \/ DsUpdateWrite(1)
    \/ DsDeleteRead(1)
    \/ DsDeleteWrite(1)

SpecToggle == InitToggle /\ [][NextToggle]_vars

\* a toggle of a task of the collection has been answered
Toggled == Answered("toggle") /\ req[1].id \in IdsOf(req[1].snap)

\* the last request on the id of the request of slot 1 was a toggle too, and
\* it was answered 200
ToggledTwice ==
    /\ Toggled
    /\ prev[req[1].id].op = "toggle"
    /\ prev[req[1].id].status = 200

\* C5: a toggle of a task of the collection is answered 200, stores the
\* negation of the completed value the task had and leaves its text as it
\* was; after two toggles of a task with no other request on that task in
\* between, completed is what it was before the first
C5_ToggleInvolution ==
    /\ Toggled =>
          /\ req[1].status = 200
          /\ Find(file, req[1].id).completed
                = Bool(~Truthy(Find(req[1].snap, req[1].id).completed))
          /\ Find(file, req[1].id).text = Find(req[1].snap, req[1].id).text
    /\ ToggledTwice =>
          Find(file, req[1].id).completed = prev[req[1].id].before

\* C5 witness: the second of two toggles of a task has been answered, a
\* request on another task having been answered in between, and the task is
\* completed as it was before the first
C5_Witness ==
    /\ ToggledTwice
    /\ Find(file, req[1].id).completed = Bool(TRUE)
    /\ \E id \in DOMAIN prev : id # req[1].id /\ prev[id].op = "patch" /\ prev[id].status = 200

(***************************************************************************)
(* SpecConc: two requests at a time; each awaited file-system call is a   *)
(* step, and the steps of the two requests interleave.  The clock stands   *)
(* at MaxTime and the tasks file is there.                                 *)
(***************************************************************************)
InitConc == InitAt(MaxTime, {}, {TRUE})

\* the bodies of SpecConc: one text, which two creations that interleave may
\* both store
ConcBodies ==
    [text : {Str(Rep("a", 1))}, completed : {Undefined}, extra : {FALSE}]

NextConc ==
    \E p \in Procs :
        \/ \E body \in ConcBodies : BeginCreate(p, 2, body)
        \/ \E id \in RequestIds : BeginToggle(p, 2, id)
        \/ \E id \in RequestIds : BeginDeleteMany(p, 2, <<id>>)
        \/ Finish(p)
        \/ InitAccess(p)
        \/ RepoDupRead(p)
        \/ DsCreateRead(p)
        \/ DsCreateWrite(p)
        \/ RepoFind(p)
        \/ DsUpdateRead(p)
        \/ DsUpdateWrite(p)
        \/ DsDeleteManyRead(p)
        \/ DsDeleteManyWrite(p)

SpecConc == InitConc /\ [][NextConc]_vars

\* what the mutating request r makes of the collection it has read
Effect(r) ==
    CASE r.op = "create" -> Append(r.rsnap, r.task)
      [] r.op \in {"put", "patch", "toggle"} ->
            [r.rsnap EXCEPT ![FindIndex(r.rsnap, r.id)] = Spread(@, r.task)]
      [] r.op = "delete" -> DeleteById(r.rsnap, r.id).tasks
      [] OTHER -> SelectSeq(r.rsnap, LAMBDA task : ~Includes(r.ids, task.id))

\* request q has been answered, and another request wrote the collection
\* after q had read it and before q wrote it
Overlapped(q) == req[q].pc = "done" /\ req[q].overlap

\* C3: when another request has written the collection between the read and
\* the write of a mutating request, that request is answered with success all
\* the same, as is every request that has written, and what it has written,
\* while it is the last write, is what it made of the collection it had read:
\* the other request's write is lost
C3_LastWriterWins ==
    \A q \in Procs :
        /\ (req[q].pc = "done" /\ req[q].writes > 0) => req[q].status \in {200, 201}
        /\ Overlapped(q) => req[q].status \in {200, 201}
        /\ (Overlapped(q) /\ lastWriter = q) => file = Effect(req[q])

\* C3 witness: two creations have been answered 201, the second wrote last
\* and the task of the first is not in the collection
C3_Witness ==
    /\ Overlapped(2)
    /\ lastWriter = 2
    /\ req[2].op = "create"
    /\ req[1].pc = "done" /\ req[1].op = "create" /\ req[1].status = 201
    /\ req[1].data.id \notin IdsOf(file)
    /\ req[2].data.id \in IdsOf(file)

\* the two slots hold creations that were handled at the same time (a slot
\* takes no request while another holds an answer that is not yet sent off)
\* and whose texts are equal after lowercasing and trimming
CreatedTogether ==
    /\ \A p \in Procs : req[p].op = "create" /\ req[p].pc # "idle"
    /\ NormText(req[1].body.text.s) = NormText(req[2].body.text.s)

\* C27: of two createTask requests with texts that are equal after
\* lowercasing and trimming and that are processed concurrently, at most one
\* succeeds, and the collection never holds two tasks with equal normalized
\* text
C27_ConcurrentCreateExclusive ==
    /\ CreatedTogether => \E p \in Procs : ~(req[p].pc = "done" /\ req[p].status = 201)
    /\ \A i, j \in DOMAIN file :
          i # j => NormText(file[i].text.s) # NormText(file[j].text.s)

\* C27 witness: two creations of one text that were handled at the same
\* time have both been answered, and the collection holds a task of that
\* text
C27_Witness ==
    /\ CreatedTogether
    /\ \A p \in Procs : req[p].pc = "done"
    /\ \E i \in DOMAIN file :
          NormText(file[i].text.s) = NormText(req[1].body.text.s)

\* the ids that the answered request r reports as deleted: the id of a
\* DELETE /:id answered 200, and the ids of a bulk delete answered 200 that
\* has removed a task for each of them
Deleted(r) ==
    IF r.pc # "done" \/ r.status # 200 THEN {}
    ELSE IF r.op = "delete" THEN {r.id}
    ELSE IF r.op = "deleteMany" /\ r.count = Len(r.ids) THEN {r.ids[k] : k \in DOMAIN r.ids}
    ELSE {}

\* C28: once a delete of an id has reported success, no task with that id
\* is in the collection again, also when an update or a toggle of the id was
\* in flight while the delete ran
C28_DeleteIsFinal == \A p \in Procs : Deleted(req[p]) \cap IdsOf(file) = {}

\* C28 witness: a bulk delete has reported the removal of a task of which a
\* toggle was in flight, and the toggle has been answered
C28_Witness ==
    \E p, q \in Procs :
        /\ Deleted(req[p]) # {}
        /\ req[q].op = "toggle" /\ req[q].pc = "done"
        /\ req[q].id \in Deleted(req[p])

(***************************************************************************)
(* SpecRace: two requests at a time, as in SpecConc, when the server has  *)
(* started without the tasks file.  init() awaits fs.access and then       *)
(* fs.writeFile, and the steps of the two requests interleave at these     *)
(* awaits as well.                                                         *)
(***************************************************************************)
InitRace == InitAt(MaxTime, {}, {FALSE})

NextRace ==
    \/ NextConc
    \/ \E p \in Procs : InitWrite(p)

SpecRace == InitRace /\ [][NextRace]_vars

\* the fs.writeFile of an init() completes in this step
InitWrites == \E p \in Procs : req[p].initpc = "write" /\ req'[p].initpc = "none"

\* C29: once a task has been written to the storage file, no init() of any
\* request resets the file to the empty collection, also not the init() of
\* a request that started to initialize while the file was absent
C29_InitKeepsTasks == [][(file # <<>> /\ InitWrites) => file' # <<>>]_vars

\* C29 witness: a creation has written its task and been answered 201
\* while the init() of the other request, which found no file, still awaits
\* its fs.writeFile
C29_Witness ==
    \E p, q \in Procs :
        /\ req[p].op = "create" /\ req[p].pc = "done" /\ req[p].status = 201
        /\ req[q].initpc = "write"
        /\ file # <<>>

(***************************************************************************)
(* SpecQuery: the pages of a listing are fetched one after the other, the  *)
(* collection and the options staying as they are.                         *)
(***************************************************************************)
\* a collection has at most MaxTasks tasks
MaxTasks == 3
\* a page has at most MaxLimit tasks
MaxLimit == 2

\* the texts of the tasks of SpecQuery
QueryTexts == {Str(Rep("a", 1)), Str(Rep("B", 1))}

\* the times of the tasks of SpecQuery
QueryTimes == {0, MaxTime}

\* the tasks that may come after the tasks of a collection: created at the
\* time of the last of them or later, and left as created or toggled once
TasksAfter(tasks) ==
    LET created == {t \in QueryTimes : tasks = <<>> \/ t >= tasks[Len(tasks)].createdAt}
    IN  {[id |-> Len(tasks) + 1, text |-> text, completed |-> Bool(FALSE),
          createdAt |-> t, updatedAt |-> t] : text \in QueryTexts, t \in created}
        \cup
        {[id |-> Len(tasks) + 1, text |-> text, completed |-> Bool(TRUE),
          createdAt |-> tu[1], updatedAt |-> tu[2]] :
            text \in QueryTexts,
            tu \in {x \in created \X QueryTimes : x[2] >= x[1]}}

\* the collections of n tasks
RECURSIVE CollectionsOf(_)
CollectionsOf(n) ==
    IF n = 0 THEN {<<>>}
    ELSE UNION {{Append(tasks, task) : task \in TasksAfter(tasks)} :
                    tasks \in CollectionsOf(n - 1)}

\* the collections of SpecQuery
QueryCollections == UNION {CollectionsOf(n) : n \in 0..MaxTasks}

\* the options of SpecQuery, page apart
QueryOptions ==
    [limit : {1, MaxLimit}, search : {<<>>, Rep("B", 1)},
     completed : {Null, Bool(TRUE), Bool(FALSE)},
     sortBy : {"createdAt", "updatedAt", "text"}, sortOrder : {"asc", "desc"}]

\* the options without their keys sortBy and sortOrder
Unsorted(options) ==
    [limit |-> options.limit, search |-> options.search,
     completed |-> options.completed]

\* options with the key page
WithPage(options, page) ==
    [key \in DOMAIN options \cup {"page"} |->
        IF key = "page" THEN page ELSE options[key]]

InitQuery ==
    /\ file \in QueryCollections
    /\ fileExists = TRUE
    /\ initialized = TRUE
    /\ now = MaxTime
    /\ uuidCount = Len(file)
    /\ req = [p \in Procs |-> IdleReq]
    /\ lastWriter = 0
    /\ track = {}
    /\ prev = NoPrev
    /\ query \in {[options |-> WithPage(options, 1), pages |-> <<>>, metas |-> <<>>] :
                    options \in QueryOptions \cup {Unsorted(o) : o \in QueryOptions}}
    /\ stats = NoStats
    /\ listing = NoListing
    /\ OutsideIdle

\* the page after the ones that have been fetched is fetched, up to the
\* first page after the last one that there is
FetchPage ==
    LET result == FindWithPagination(ReadAll, query.options)
    IN  /\ query.options.page <= result.pagination.totalPages + 1
        /\ query' = [options |-> WithPage(query.options, query.options.page + 1),
                     pages |-> Append(query.pages, result.tasks),
                     metas |-> Append(query.metas, result.pagination)]
        /\ UNCHANGED <<file, fileExists, initialized, now, uuidCount, req,
                       lastWriter, track, prev, stats, listing, outside>>

NextQuery == FetchPage

SpecQuery == InitQuery /\ [][NextQuery]_vars

\* the pages one after the other
RECURSIVE Flatten(_)
Flatten(pages) == IF pages = <<>> THEN <<>> ELSE Head(pages) \o Flatten(Tail(pages))

\* every page there is has been fetched
AllFetched ==
    query.options.page > CeilDiv(Cardinality({i \in DOMAIN file : Matches(file[i], query.options)}),
                                 query.options.limit)

\* tasks is in the order of options: no task comes before a task whose sort
\* value is less (asc) or greater (desc) than its own
InOrder(tasks, options) ==
    \A i, j \in DOMAIN tasks :
        i < j => LET x == SortValue(tasks[i], options.sortBy)
                     y == SortValue(tasks[j], options.sortBy)
                 IN  IF options.sortOrder = "asc"
                     THEN ~ValueLess(y, x, options.sortBy)
                     ELSE ~ValueLess(x, y, options.sortBy)

\* C8: no page has more than limit tasks, and the pages 1..totalPages one
\* after the other hold every task that passes the filters once and no other
\* task, in the order of the options
C8_PagesCoverOnce ==
    /\ \A k \in DOMAIN query.pages : Len(query.pages[k]) <= query.options.limit
    /\ AllFetched =>
          LET all == Flatten(query.pages)
          IN  /\ \A i \in DOMAIN file :
                    Cardinality({k \in DOMAIN all : all[k] = file[i]})
                        = IF Matches(file[i], query.options) THEN 1 ELSE 0
              /\ \A k \in DOMAIN all : \E i \in DOMAIN file : all[k] = file[i]
              /\ InOrder(all, Destructure(query.options))

\* C8 witness: two pages have been fetched, of a collection with two tasks
\* created at the same time and a task that the filters leave out
C8_Witness ==
    /\ AllFetched
    /\ Len(query.pages) = 2
    /\ \E i \in DOMAIN file : ~Matches(file[i], query.options)
    /\ \E i, j \in DOMAIN file :
          /\ i # j
          /\ Matches(file[i], query.options) /\ Matches(file[j], query.options)
          /\ Destructure(query.options).sortBy = "createdAt"
          /\ file[i].createdAt = file[j].createdAt

\* the task passes the filters that the options ask for: its text holds the
\* search term, letter case apart, when there is a search term, and its
\* completed is the one asked for when one is asked for
Satisfies(task, options) ==
    /\ options.search # <<>> =>
           LET text == Expand(ToLowerCase(task.text.s))
               term == Expand(ToLowerCase(options.search))
           IN  \E k \in 1..(Len(text) - Len(term) + 1) :
                   \A j \in DOMAIN term : text[k + j - 1] = term[j]
    /\ options.completed \in {Bool(TRUE), Bool(FALSE)} =>
           task.completed.b = options.completed.b

\* C21: the pages of findWithPagination, one after the other, hold exactly
\* the tasks of the collection that satisfy both filters: the text contains
\* the search term case-insensitively (when search is not empty) and
\* completed equals the completed option (when it is not null)
C21_FiltersExact ==
    AllFetched =>
        LET all == Flatten(query.pages)
        IN  {all[k] : k \in DOMAIN all}
                = {file[i] : i \in {j \in DOMAIN file : Satisfies(file[j], query.options)}}

\* C21 witness: every page of the completed=false listing with a search term
\* in capitals has been fetched, of a collection with a task that passes
\* both filters, a task that only the search filter leaves out and a task
\* that only the completed filter leaves out
C21_Witness ==
    /\ AllFetched
    /\ query.options.completed = Bool(FALSE)
    /\ query.options.search = Rep("B", 1)
    /\ Flatten(query.pages) # <<>>
    /\ \E i, j \in DOMAIN file :
          /\ file[i].text = Str(Rep("a", 1)) /\ file[i].completed = Bool(FALSE)
          /\ file[j].text = Str(Rep("B", 1)) /\ file[j].completed = Bool(TRUE)

\* the key of task a is at most the key of task b: the date value of
\* createdAt or updatedAt, or the lowercased text
KeyAtMost(a, b, sortBy) ==
    CASE sortBy = "createdAt" -> a.createdAt <= b.createdAt
      [] sortBy = "updatedAt" -> a.updatedAt <= b.updatedAt
      [] sortBy = "text" ->
            ~CharsLess(Expand(ToLowerCase(b.text.s)), Expand(ToLowerCase(a.text.s)))

\* the sortBy and the sortOrder that are asked for, createdAt and desc when
\* none is
AskedSortBy == IF "sortBy" \in DOMAIN query.options THEN query.options.sortBy ELSE "createdAt"

AskedSortOrder ==
    IF "sortOrder" \in DOMAIN query.options THEN query.options.sortOrder ELSE "desc"

\* C22: the tasks of findWithPagination before slicing, which the pages hold
\* one after the other, are ordered by the key of sortBy: with sortOrder
\* 'asc' every adjacent pair has key(a) <= key(b), with 'desc' every adjacent
\* pair has key(a) >= key(b); without sortBy and sortOrder the order is
\* createdAt descending
C22_SortedByKey ==
    LET all == Flatten(query.pages)
    IN  \A k \in 1..(Len(all) - 1) :
            IF AskedSortOrder = "asc"
            THEN KeyAtMost(all[k], all[k + 1], AskedSortBy)
            ELSE KeyAtMost(all[k + 1], all[k], AskedSortBy)

\* C22 witness: every page of a listing without sortBy and sortOrder has
\* been fetched, and the pages hold two tasks in the order opposite to the
\* one they have in the file, the later created one first
C22_Witness ==
    /\ AllFetched
    /\ DOMAIN query.options = {"page", "limit", "search", "completed"}
    /\ LET all == Flatten(query.pages)
       IN  \E k \in 1..(Len(all) - 1) :
              /\ all[k].createdAt > all[k + 1].createdAt
              /\ all[k].id > all[k + 1].id

\* the number of tasks of the collection that satisfy the filters
FilteredCount == Cardinality({i \in DOMAIN file : Satisfies(file[i], query.options)})

\* C23: for every page >= 1 and limit >= 1 the pagination metadata of
\* findWithPagination has total = the number of filtered tasks, totalPages =
\* ceil(total / limit), hasPrev iff page > 1, and hasNext iff page <
\* totalPages, which is exactly when page + 1 holds at least one task
C23_PaginationMetadata ==
    \A k \in DOMAIN query.metas :
        LET m == query.metas[k]
        IN  (m.page >= 1 /\ m.limit >= 1) =>
               /\ m.page = k
               /\ m.total = FilteredCount
               /\ m.totalPages * m.limit >= m.total
               /\ (m.totalPages - 1) * m.limit < m.total
               /\ m.hasPrev <=> (m.page > 1)
               /\ m.hasNext <=> (m.page < m.totalPages)
               /\ m.hasNext <=> (FilteredCount > m.page * m.limit)
               /\ k < Len(query.pages) => (m.hasNext <=> (query.pages[k + 1] # <<>>))

\* C23 witness: of a listing whose total is no multiple of the limit, the
\* first page, which has a next page and no previous one, and every page up
\* to the one after the last have been fetched
C23_Witness ==
    /\ Len(query.metas) >= 3
    /\ query.metas[1].hasNext /\ ~query.metas[1].hasPrev
    /\ query.metas[1].total % query.metas[1].limit # 0
    /\ LET m == query.metas[Len(query.metas)]
       IN  m.page = m.totalPages + 1 /\ ~m.hasNext /\ m.hasPrev

(***************************************************************************)
(* SpecStats: getStats() on a collection.                                  *)
(***************************************************************************)
\* a collection has at most MaxTotal tasks
MaxTotal == 40

\* the collection of total tasks of which the first completed are completed;
\* the texts are "a", "aa", "aaa", ...
StatsCollection(total, completed) ==
    [i \in 1..total |->
        [id |-> i, text |-> Str(Rep("a", i)), completed |-> Bool(i <= completed),
         createdAt |-> 0, updatedAt |-> IF i <= completed THEN MaxTime ELSE 0]]

InitStats ==
    /\ file \in {StatsCollection(x[1], x[2]) :
                    x \in {y \in (0..MaxTotal) \X (0..MaxTotal) : y[2] <= y[1]}}
    /\ fileExists = TRUE
    /\ initialized = TRUE
    /\ now = MaxTime
    /\ uuidCount = Len(file)
    /\ req = [p \in Procs |-> IdleReq]
    /\ lastWriter = 0
    /\ track = {}
    /\ prev = NoPrev
    /\ query = NoQuery
    /\ stats = NoStats
    /\ listing = NoListing
    /\ OutsideIdle

\* getStats()
CallGetStats ==
    /\ ~stats.called
    /\ stats' = GetStats(ReadAll)
    /\ UNCHANGED <<file, fileExists, initialized, now, uuidCount, req,
                   lastWriter, track, prev, query, listing, outside>>

NextStats == CallGetStats

SpecStats == InitStats /\ [][NextStats]_vars

\* round(100 * completed / total), a half going up
RoundedPercent(completed, total) == (200 * completed + total) \div (2 * total)

\* C9 as stated: getStats returns the number of tasks as total, total =
\* completed + pending, completionRate = round(100 * completed / total), or 0
\* when total is 0, and a completionRate within 0..100
C9_StatsExact ==
    stats.called =>
        /\ stats.total = Len(file)
        /\ stats.total = stats.completed + stats.pending
        /\ stats.completionRate
              = IF stats.total = 0 THEN 0
                ELSE RoundedPercent(stats.completed, stats.total)
        /\ stats.completionRate \in 0..100

\* what holds of getStats: the counts, the range, and a completionRate that is
\* round(100 * completed / total) or, where the exact rate ends in a half, one
\* less
C9_StatsWithinOne ==
    stats.called =>
        /\ stats.total = Len(file)
        /\ stats.total = stats.completed + stats.pending
        /\ stats.completionRate \in 0..100
        /\ stats.total = 0 => stats.completionRate = 0
        /\ stats.total > 0 =>
              LET exact == RoundedPercent(stats.completed, stats.total)
              IN  \/ stats.completionRate = exact
                  \/ /\ stats.completionRate = exact - 1
                     /\ (200 * stats.completed) % (2 * stats.total) = stats.total

\* C9 witness: 23 of 40 tasks are completed, the exact rate is 57.5, and
\* getStats has returned 57
C9_Witness ==
    /\ stats.called
    /\ stats.total = 40
    /\ stats.completed = 23
    /\ stats.completionRate = 57

(***************************************************************************)
(* SpecList: one request to the list handler or to the search handler, on  *)
(* a collection.                                                           *)
(***************************************************************************)
\* a collection has at most MaxListed tasks
MaxListed == 2

\* the string of these characters
Chars(seq) == Pack([i \in DOMAIN seq |-> [c |-> seq[i], n |-> 1]])

\* the values of the parameter page (or none): '0', '-1', '2', 'x'
PageParams ==
    {Undefined, Str(Chars(<<"0">>)), Str(Chars(<<"-", "1">>)), Str(Chars(<<"2">>)),
     Str(Chars(<<"x">>))}

\* the values of the parameter limit (or none): '0', '-1', '1', '101', 'x'
LimitParams ==
    {Undefined, Str(Chars(<<"0">>)), Str(Chars(<<"-", "1">>)), Str(Chars(<<"1">>)),
     Str(Chars(<<"1", "0", "1">>)), Str(Chars(<<"x">>))}

\* the values of the parameter completed (or none): 'true', 'false', 'y'
CompletedParams ==
    {Undefined, TrueString, Str(Chars(<<"f", "a", "l", "s", "e">>)), Str(Chars(<<"y">>))}

\* the queries of GET /api/tasks
ListParams ==
    [page : PageParams, limit : LimitParams, completed : CompletedParams,
     search : {Undefined, Str(Rep("B", 1))}, q : {Undefined}]

\* the queries of GET /api/tasks/search
SearchParams ==
    [page : PageParams, limit : LimitParams, completed : CompletedParams,
     search : {Undefined}, q : {Undefined, Str(Rep("a", 1)), Str(Rep("B", 1))}]

InitList ==
    /\ file \in UNION {CollectionsOf(n) : n \in 0..MaxListed}
    /\ fileExists = TRUE
    /\ initialized = TRUE
    /\ now = MaxTime
    /\ uuidCount = Len(file)
    /\ req = [p \in Procs |-> IdleReq]
    /\ lastWriter = 0
    /\ track = {}
    /\ prev = NoPrev
    /\ query = NoQuery
    /\ stats = NoStats
    /\ listing = NoListing
    /\ OutsideIdle

\* what the list and the search handler answer with the options they have
\* made: TasksRepository.getAllTasks calls findWithPagination and passes every
\* task through Task.fromJSON and toJSON
Listed(handler, params, options) ==
    LET result == FindWithPaginationOf(ReadAll, options)
    IN  /\ listing' = [handler |-> handler, params |-> params, status |-> 200,
                       options |-> options,
                       tasks |-> [i \in DOMAIN result.tasks |-> FromJSON(result.tasks[i])],
                       pagination |-> result.pagination]
        /\ UNCHANGED <<file, fileExists, initialized, now, uuidCount, req,
                       lastWriter, track, prev, query, stats, outside>>

\* GET /api/tasks: TasksController.getAllTasks
GetAllTasks(params) ==
    /\ listing.handler = "none"
    /\ Listed("list", params, GetAllTasksOptions(params))

\* GET /api/tasks/search: TasksController.searchTasks; without q it answers 400
SearchTasks(params) ==
    /\ listing.handler = "none"
    /\ IF ~Truthy(params.q)
       THEN /\ listing' = [NoListing EXCEPT !.handler = "search", !.params = params,
                                            !.status = 400]
            /\ UNCHANGED <<file, fileExists, initialized, now, uuidCount, req,
                           lastWriter, track, prev, query, stats, outside>>
       ELSE Listed("search", params, SearchTasksOptions(params))

NextList ==
    \/ \E params \in ListParams : GetAllTasks(params)
    \/ \E params \in SearchParams : SearchTasks(params)

SpecList == InitList /\ [][NextList]_vars

\* the number of tasks of the collection that pass the search filter of the
\* request and whose completed is among wanted
Passing(wanted) ==
    Cardinality({i \in DOMAIN file :
        /\ file[i].completed \in wanted
        /\ listing.options.search # <<>> =>
              StrIncludes(ToLowerCase(file[i].text.s), ToLowerCase(listing.options.search))})

\* what the parameter completed of the answered request asks for
WantedCompleted ==
    IF listing.params.completed = Undefined THEN {Bool(TRUE), Bool(FALSE)}
    ELSE IF listing.params.completed = TrueString THEN {Bool(TRUE)}
    ELSE {Bool(FALSE)}

\* C13 as stated: in the list handler and in the search handler, the answer
\* counts the tasks of both completion states when completed is absent, the
\* completed tasks when it is 'true', and the incomplete tasks for any other
\* value
C13_CompletedTriState ==
    listing.status = 200 => listing.pagination.total = Passing(WantedCompleted)

\* what holds of C13: the list handler does as stated; the search handler
\* filters to the incomplete tasks when completed is absent
C13_CompletedTriStateOfList ==
    listing.status = 200 =>
        listing.pagination.total =
            Passing(IF listing.handler = "search" /\ listing.params.completed = Undefined
                        THEN {Bool(FALSE)} ELSE WantedCompleted)

\* C13 witness: a search without completed, with the default page and limit,
\* has returned no task, though a completed task has the text searched for
C13_Witness ==
    /\ listing.handler = "search"
    /\ listing.status = 200
    /\ listing.params.completed = Undefined
    /\ listing.params.page = Undefined
    /\ listing.params.limit = Undefined
    /\ listing.tasks = <<>>
    /\ Passing({Bool(TRUE)}) > 0

\* the options of the answered request have a page of 1 or more and a limit
\* of 1..100
OptionsInRange ==
    /\ ~listing.options.page.nan /\ listing.options.page.n >= 1
    /\ ~listing.options.limit.nan
    /\ listing.options.limit.n \in 1..MaxPageLimit

\* the options are what the rules of C19 make of the requested page and
\* limit when these read as the numbers page and limit
Clamped(page, limit) ==
    /\ NumLess(page, Num(1)) => listing.options.page = Num(1)
    /\ NumLess(limit, Num(1)) => listing.options.limit = Num(DefaultLimit)
    /\ NumLess(Num(MaxPageLimit), limit) => listing.options.limit = Num(MaxPageLimit)
    /\ listing.params.page = Undefined => listing.options.page = Num(DefaultPage)
    /\ listing.params.limit = Undefined => listing.options.limit = Num(DefaultLimit)

\* C19 as stated: the options that the list handler and the search handler
\* hand to the query engine have page >= 1 and 1 <= limit <= 100; a page
\* below 1 has become 1, a limit below 1 has become 10, a limit above 100 has
\* become 100, and absent values have become 1 and 10
C19_OptionsClamped ==
    listing.status = 200 =>
        /\ OptionsInRange
        /\ Clamped(ParseInt(listing.params.page), ParseInt(listing.params.limit))

\* what holds of C19: the rules are kept wherever the options are in range,
\* and the options are in range but for a page or a limit that is no number
\* in the list handler and for a negative page or limit in the search handler
C19_OptionsClampedButFor ==
    listing.status = 200 =>
        LET page == ParseInt(listing.params.page)
            limit == ParseInt(listing.params.limit)
            absent == {v \in {"page", "limit"} : listing.params[v] = Undefined}
            noNumber == {v \in {"page", "limit"} \ absent : ParseInt(listing.params[v]).nan}
            negative == {v \in {"page", "limit"} \ absent : NumLess(ParseInt(listing.params[v]), Num(0))}
        IN  /\ OptionsInRange <=> IF listing.handler = "list"
                                      THEN noNumber = {} ELSE negative = {}
            /\ OptionsInRange => Clamped(page, limit)

\* C19 witness: a search with page=-1 has handed the page -1 to the engine
C19_Witness ==
    /\ listing.handler = "search"
    /\ listing.status = 200
    /\ listing.params.limit = Undefined
    /\ listing.options.page = Num(-1)
    /\ listing.pagination.hasNext
    /\ Len(file) = 2

(***************************************************************************)
(* SpecFail: the requests are handled one at a time, any file-system call  *)
(* may throw, and the tasks file may be removed between two requests.  The *)
(* clock stands at MaxTime.                                                *)
(***************************************************************************)
InitFail == InitAt(MaxTime, {"snap"}, BOOLEAN)

NextFail ==
    \/ \E body \in Bodies : BeginCreate(1, 1, body)
    \/ \E id \in RequestIds, body \in UpdateBodies : BeginPut(1, 1, id, body)
    \/ \E id \in RequestIds, body \in UpdateBodies : BeginPatch(1, 1, id, body)
    \/ \E id \in RequestIds : BeginToggle(1, 1, id)
    \/ \E id \in RequestIds : BeginGet(1, 1, id)
    \/ \E id \in RequestIds : BeginDelete(1, 1, id)
    \/ \E ids \in IdLists : BeginDeleteMany(1, 1, ids)
    \/ BeginDeleteCompleted(1, 1)
    \/ Finish(1)
    \/ InitAccess(1)
    \/ InitWrite(1)
    \/ RepoDupRead(1)
    \/ DsCreateRead(1)
    \/ DsCreateWrite(1)
    \/ RepoFind(1)
    \/ RepoUpdDupRead(1)
    \/ DsUpdateRead(1)
    \/ DsUpdateWrite(1)
    \/ DsDeleteRead(1)
    \/ DsDeleteWrite(1)
    \/ RepoCompletedRead(1)
    \/ DsDeleteManyRead(1)
    \/ DsDeleteManyWrite(1)
    \/ StorageFails(1)
    \/ RemoveFile

SpecFail == InitFail /\ [][NextFail]_vars

\* the handler of the request r has called the repository
RepositoryCalled(r) ==
    CASE r.op \in {"create", "put"} -> r.body.text.t = "string" /\ r.body.text.s # <<>>
      [] r.op = "patch" -> /\ r.body.text.t \in {"undefined", "string"}
                           /\ (r.body.text.t = "string" \/ r.body.completed.t # "undefined")
      [] r.op = "deleteMany" -> r.ids # <<>>
      [] OTHER -> r.op # "none"

\* what the repository makes of the request r on the collection of before,
\* as long as no file-system call throws: the id is absent, the task is not
\* valid, the text is that of another task, or the request succeeds
Outcome(r) ==
    IF r.failed # "none" THEN "failure"
    ELSE IF r.op \in {"get", "put", "patch", "toggle", "delete"}
            /\ Find(r.snap, r.id) = NoTask THEN "absent"
    ELSE IF r.op \in {"create", "put", "patch"} /\ ~WellFormed(r.task) THEN "invalid"
    ELSE IF r.op = "create" /\ TextOfAnother(r.snap, r.task.text, NoValue) THEN "duplicate"
    ELSE IF r.op \in {"put", "patch"} /\ r.updates.text.t = "string"
            /\ TextOfAnother(r.snap, r.updates.text, r.id) THEN "duplicate"
    ELSE "success"

\* C18: a handler that has called the repository answers 200 to a success
\* (201 to a creation), 404 to an absent id, 400 with the violated rules as
\* details to a task that is not valid, 409 to a duplicate text, and 500 to
\* any other failure, a failure of the storage among them
C18_StatusOfOutcome ==
    (req[1].pc = "done" /\ RepositoryCalled(req[1])) =>
        /\ req[1].status =
              CASE Outcome(req[1]) = "failure" -> 500
                [] Outcome(req[1]) = "absent" -> 404
                [] Outcome(req[1]) = "invalid" -> 400
                [] Outcome(req[1]) = "duplicate" -> 409
                [] OTHER -> IF req[1].op = "create" THEN 201 ELSE 200
        /\ Outcome(req[1]) = "invalid" =>
              (req[1].details # <<>> /\ req[1].details = ValidateErrors(req[1].task))

\* C18 witness: a PUT or PATCH of a stored task whose writeAll threw was
\* answered 500, two tasks being stored
C18_Witness ==
    /\ req[1].pc = "done"
    /\ req[1].op \in {"put", "patch"}
    /\ req[1].failed # "none"
    /\ req[1].rsnap # <<>>
    /\ req[1].status = 500
    /\ Len(file) = 2

\* what a request whose readAll has found no file has made of it is what it
\* makes of an empty collection
ReadEmpty(r, pc) ==
    /\ r.failed = "none"
    /\ CASE pc \in {"find", "updateRead", "deleteRead"} -> r.pc = "done" /\ r.status = 404
         [] pc = "completedRead" -> r.pc = "done" /\ r.status = 200
         [] pc = "dupRead" -> r.pc = "createRead"
         [] pc = "updDupRead" -> r.pc = "updateRead"
         [] pc = "createRead" -> r.pc = "createWrite" /\ r.tasks = <<r.task>>
         [] pc = "manyRead" -> r.pc = "manyWrite" /\ r.tasks = <<>> /\ r.count = 0

\* C20: when init() sets initialized, the tasks file is there, and it holds
\* no task if it was missing; a readAll that finds no file, also after init()
\* has run, returns [] and throws nothing; a file-system call that throws any
\* other error ends the request with an error that the handler answers (500),
\* nothing being written and no call being made again
C20_LazyInitAndFailures ==
    /\ [](req[1].failed # "none" => (req[1].pc = "done" /\ req[1].status = 500))
    /\ [][/\ (~initialized /\ initialized') =>
                (fileExists' /\ (~fileExists => file' = <<>>))
          /\ (AtRead(1) /\ ~fileExists /\ req'[1] # req[1]) =>
                ReadEmpty(req'[1], req[1].pc)
          /\ (req[1].failed = "none" /\ req'[1].failed # "none") =>
                (file' = file /\ fileExists' = fileExists
                    /\ req'[1].writes = req[1].writes)]_vars

\* C20 witness: a task was created after the file with the first task had
\* been removed, the datasource being initialized: the new task is the only
\* task of the file
C20_Witness ==
    /\ Answered("create")
    /\ req[1].status = 201
    /\ uuidCount = 2
    /\ req[1].snap = <<>>
    /\ Len(file) = 1
    /\ file[1].id = 2

(***************************************************************************)
(* SpecValidate: one call of validate() on a new Task.                     *)
(***************************************************************************)
\* the texts of the constructor's data: absent, no string, empty, blank,
\* and strings of 1, 99, 100 and 101 letters with and without a space
\* before and after
ValidateTexts ==
    {Undefined, Bool(TRUE), Bool(FALSE), Str(<<>>), Str(Rep(" ", 1)),
     Str(Rep(" ", MaxTextLength + 1))}
    \cup {Str(Concat(Rep(" ", before), Concat(Rep("a", n), Rep(" ", after)))) :
             n \in {1, MaxTextLength - 1, MaxTextLength, MaxTextLength + 1},
             before \in {0, 1}, after \in {0, 1}}

\* the values of completed of the constructor's data
ValidateCompleted == {Undefined, Bool(TRUE), Bool(FALSE), Str(<<>>), Str(Rep("y", 1))}

InitValidate ==
    /\ file = <<>>
    /\ fileExists = TRUE
    /\ initialized = FALSE
    /\ now = 0
    /\ uuidCount = 0
    /\ req = [p \in Procs |-> IdleReq]
    /\ lastWriter = 0
    /\ track = {}
    /\ prev = NoPrev
    /\ query = NoQuery
    /\ stats = NoStats
    /\ listing = NoListing
    /\ OutsideIdle

\* new Task(data).validate()
ValidateTask(data) ==
    LET task == NewTask(data, 1, now, now)
        result == Validate(task)
    IN  /\ ~validation.called
        /\ validation' = [called |-> TRUE, data |-> data, task |-> task,
                          threw |-> result.threw,
                          isValid |-> result.isValid, errors |-> result.errors]
        /\ UNCHANGED <<file, fileExists, initialized, now, uuidCount, req,
                       lastWriter, track, prev, query, stats, listing, limiter, routed, process>>

NextValidate ==
    \E text \in ValidateTexts, completed \in ValidateCompleted :
        ValidateTask(TaskData(text, completed))

SpecValidate == InitValidate /\ [][NextValidate]_vars

\* the errors as a set
ErrorSet == {validation.errors[k] : k \in DOMAIN validation.errors}

\* the rules of validate() that the task breaks, by their messages
Violated(task) ==
    {m \in {"Text is required and must be a string"} :
        task.text.t # "string" \/ task.text.s = <<>>}
    \cup {m \in {"Text must not exceed 100 characters"} :
        task.text.t = "string" /\ Length(Trim(task.text.s)) > 100}
    \cup {m \in {"Text cannot be empty"} :
        task.text.t = "string" /\ Length(Trim(task.text.s)) = 0}
    \cup {m \in {"Completed must be a boolean value"} : task.completed.t # "boolean"}

\* C24: validate() returns isValid = true exactly when text is a string
\* whose trimmed length is between 1 and 100 and completed is a boolean;
\* otherwise it returns isValid = false and errors lists every violated
\* rule, not only the first
C24_ValidateExact ==
    validation.called =>
        LET task == validation.task
        IN  /\ ~validation.threw
            /\ validation.isValid <=>
                  /\ task.text.t = "string"
                  /\ Length(Trim(task.text.s)) \in 1..100
                  /\ task.completed.t = "boolean"
            /\ ErrorSet = Violated(task)

\* C24 as far as it holds: for a text that is a string with no white space
\* at its ends, as the handlers pass it
C24_ValidateExactOfTrimmed ==
    (/\ validation.called
     /\ validation.task.text.t = "string"
     /\ Trim(validation.task.text.s) = validation.task.text.s) => C24_ValidateExact

\* C24 witness: validate() has been called on a task whose text has 100
\* letters and a space after them
C24_Witness ==
    /\ validation.called
    /\ validation.task.text = Str(Concat(Rep("a", 100), Rep(" ", 1)))
    /\ validation.task.completed = Bool(TRUE)
    /\ ~validation.isValid
(***************************************************************************)
(* SpecLimit: the rate limiter of the tasks router,                        *)
(* createRateLimiter(15 * 60 * 1000, 100), with a window of WindowMs       *)
(* milliseconds and MaxRequests requests in place of the two arguments,    *)
(* which the limiter only compares with and subtracts from the clock.      *)
(***************************************************************************)
\* windowMs
WindowMs == 2
\* maxRequests
MaxRequests == 2
\* the latest reading of Date.now()
MaxNow == 4
\* the requests that come to the limiter
MaxHits == 5

\* the connections: req.ip and req.connection.remoteAddress, "" when
\* undefined
Connections ==
    {[ip |-> "10.0.0.1", remoteAddress |-> "10.0.0.1"],
     [ip |-> "10.0.0.2", remoteAddress |-> "10.0.0.2"],
     [ip |-> "", remoteAddress |-> "10.0.0.1"],
     [ip |-> "", remoteAddress |-> ""]}

\* req.ip || req.connection.remoteAddress || 'unknown'
ClientId(connection) ==
    IF connection.ip # "" THEN connection.ip
    ELSE IF connection.remoteAddress # "" THEN connection.remoteAddress
    ELSE "unknown"

\* (mutant) a window that is a millisecond short
InWindowShort(timestamp, t) == timestamp > t - (WindowMs - 1)

\* timestamp > windowStart, windowStart being t - windowMs
InWindow(timestamp, t) == timestamp > t - WindowMs

InitLimit ==
    /\ file = <<>>
    /\ fileExists = TRUE
    /\ initialized = FALSE
    /\ now = 0
    /\ uuidCount = 0
    /\ req = [p \in Procs |-> IdleReq]
    /\ lastWriter = 0
    /\ track = {}
    /\ prev = NoPrev
    /\ query = NoQuery
    /\ stats = NoStats
    /\ listing = NoListing
    /\ OutsideIdle

\* the middleware that createRateLimiter returns, for a request of the
\* connection when Date.now() reads t
RateLimit(connection, t) ==
    LET clientId == ClientId(connection)
        requests == limiter.requests
        cleaned == IF clientId \in DOMAIN requests
                   THEN [requests EXCEPT ![clientId] =
                            SelectSeq(@, LAMBDA timestamp : InWindow(timestamp, t))]
                   ELSE requests
        clientRequests == IF clientId \in DOMAIN cleaned THEN cleaned[clientId] ELSE <<>>
    IN  /\ Len(limiter.log) < MaxHits
        /\ now' = t
        /\ IF Len(clientRequests) >= MaxRequests
           THEN limiter' = [requests |-> cleaned,
                            log |-> Append(limiter.log,
                                           [clientId |-> clientId, at |-> t, status |-> 429])]
           ELSE limiter' = [requests |-> [id \in DOMAIN cleaned \cup {clientId} |->
                                             IF id = clientId THEN Append(clientRequests, t)
                                             ELSE cleaned[id]],
                            log |-> Append(limiter.log,
                                           [clientId |-> clientId, at |-> t, status |-> 0])]
        /\ UNCHANGED <<file, fileExists, initialized, uuidCount, req, lastWriter,
                       track, prev, query, stats, listing, validation, routed,
                   process>>

NextLimit == \E connection \in Connections, t \in now..MaxNow : RateLimit(connection, t)

SpecLimit == InitLimit /\ [][NextLimit]_vars

\* the requests before the k-th that the limiter admitted from the client
\* of the k-th, in the window of windowMs that ends at the k-th
AdmittedBefore(k) ==
    {j \in 1..(k - 1) :
        /\ limiter.log[j].clientId = limiter.log[k].clientId
        /\ limiter.log[j].status = 0
        /\ limiter.log[j].at > limiter.log[k].at - WindowMs}

\* C25: the limiter never admits more than maxRequests requests of one
\* client within any window of windowMs; a request is rejected with 429
\* exactly when the client already has maxRequests admitted requests with
\* timestamps inside the window; rejected requests are not counted, and the
\* requests of another client are not counted
C25_SlidingWindowLimit ==
    LET log == limiter.log
    IN  /\ \A k \in DOMAIN log :
              (log[k].status = 429) <=> (Cardinality(AdmittedBefore(k)) >= MaxRequests)
        /\ \A k \in DOMAIN log : log[k].status \in {0, 429}
        /\ \A k \in DOMAIN log : \A end \in 0..(MaxNow + WindowMs) :
              Cardinality({j \in DOMAIN log :
                              /\ log[j].clientId = log[k].clientId
                              /\ log[j].status = 0
                              /\ log[j].at > end - WindowMs
                              /\ log[j].at <= end}) <= MaxRequests

\* C25 witness: a client has been admitted maxRequests times and then
\* rejected, another client has been admitted after that within the window,
\* and the first client has been admitted again once its window had passed
C25_Witness ==
    \E k, m, n \in DOMAIN limiter.log :
        /\ k < m /\ m < n
        /\ limiter.log[k].status = 429
        /\ Cardinality(AdmittedBefore(k)) = MaxRequests
        /\ limiter.log[m].clientId # limiter.log[k].clientId
        /\ limiter.log[m].status = 0
        /\ limiter.log[m].at < limiter.log[k].at + WindowMs
        /\ limiter.log[n].clientId = limiter.log[k].clientId
        /\ limiter.log[n].status = 0
(***************************************************************************)
(* SpecRoute: the dispatch of the tasks router (routers/tasks.router.js),  *)
(* mounted at /api/tasks.  A path is the sequence of its segments after    *)
(* the mount point: <<>> is /api/tasks and <<"1", "toggle">> is            *)
(* /api/tasks/1/toggle.  A segment ":id" of a route matches any segment.   *)
(***************************************************************************)
\* a path has at most MaxSegments segments
MaxSegments == 2

\* the routes in the order of their registration
Routes ==
    <<[method |-> "GET",    path |-> <<"stats">>,         handler |-> "getTaskStats"],
      [method |-> "GET",    path |-> <<"search">>,        handler |-> "searchTasks"],
      [method |-> "DELETE", path |-> <<"completed">>,     handler |-> "deleteCompletedTasks"],
      [method |-> "GET",    path |-> <<>>,                handler |-> "getAllTasks"],
      [method |-> "POST",   path |-> <<>>,                handler |-> "createTask"],
      [method |-> "DELETE", path |-> <<>>,                handler |-> "deleteTasks"],
      [method |-> "GET",    path |-> <<":id">>,           handler |-> "getTaskById"],
      [method |-> "PUT",    path |-> <<":id">>,           handler |-> "updateTask"],
      [method |-> "PATCH",  path |-> <<":id">>,           handler |-> "patchTask"],
      [method |-> "PATCH",  path |-> <<":id", "toggle">>, handler |-> "toggleTaskCompletion"],
      [method |-> "DELETE", path |-> <<":id">>,           handler |-> "deleteTask"],
      [method |-> "GET",    path |-> <<"docs">>,          handler |-> "docs"]>>

\* the route matches the request: the method is the route's, and the path
\* has the route's segments, any segment in the place of ":id"
RouteMatches(route, method, path) ==
    /\ route.method = method
    /\ Len(route.path) = Len(path)
    /\ \A k \in DOMAIN path : route.path[k] \in {":id", path[k]}

\* the handler of the first route that matches; no handler of the router
\* answers when none does, and the request goes on to notFoundHandler
Dispatch(routes, method, path) ==
    LET matching == {k \in DOMAIN routes : RouteMatches(routes[k], method, path)}
    IN  IF matching = {} THEN "notFoundHandler" ELSE routes[MinOf(matching)].handler

Methods == {"GET", "POST", "PUT", "PATCH", "DELETE"}

\* the segments of the paths that are requested; "1" and "2" are ids
Segments == {"stats", "search", "completed", "docs", "toggle", "1", "2"}

\* the paths that are requested
Paths == UNION {[1..n -> Segments] : n \in 0..MaxSegments}

InitRoute ==
    /\ file = <<>>
    /\ fileExists = TRUE
    /\ initialized = FALSE
    /\ now = 0
    /\ uuidCount = 0
    /\ req = [p \in Procs |-> IdleReq]
    /\ lastWriter = 0
    /\ track = {}
    /\ prev = NoPrev
    /\ query = NoQuery
    /\ stats = NoStats
    /\ listing = NoListing
    /\ OutsideIdle

\* a request that has passed the middleware of the router is dispatched
Route(method, path) ==
    /\ ~routed.called
    /\ routed' = [called |-> TRUE, method |-> method, path |-> path,
                  handler |-> Dispatch(Routes, method, path)]
    /\ UNCHANGED <<file, fileExists, initialized, now, uuidCount, req, lastWriter,
                   track, prev, query, stats, listing, validation, limiter,
                   process>>

NextRoute == \E method \in Methods, path \in Paths : Route(method, path)

SpecRoute == InitRoute /\ [][NextRoute]_vars

\* the request is the one of the method and the path
Requested(method, path) == routed.called /\ routed.method = method /\ routed.path = path

\* the handlers of the parameterised routes
IdHandlers == {"getTaskById", "updateTask", "patchTask", "toggleTaskCompletion", "deleteTask"}

\* C26 as far as it holds: GET /stats, GET /search and DELETE /completed
\* are dispatched to their dedicated handlers
C26_LiteralRoutesButDocs ==
    /\ Requested("GET", <<"stats">>) => routed.handler = "getTaskStats"
    /\ Requested("GET", <<"search">>) => routed.handler = "searchTasks"
    /\ Requested("DELETE", <<"completed">>) => routed.handler = "deleteCompletedTasks"

\* C26: GET /stats, GET /search, DELETE /completed and GET /docs are
\* dispatched to their dedicated handlers and never to the handlers of the
\* parameterised /:id routes
C26_LiteralRoutes ==
    /\ C26_LiteralRoutesButDocs
    /\ Requested("GET", <<"docs">>) => routed.handler = "docs"
    /\ (routed.called /\ Len(routed.path) = 1
            /\ <<routed.method, routed.path[1]>> \in
                    {<<"GET", "stats">>, <<"GET", "search">>,
                     <<"DELETE", "completed">>, <<"GET", "docs">>})
          => routed.handler \notin IdHandlers

\* C26 witness: GET /api/tasks/docs has been dispatched
C26_Witness == Requested("GET", <<"docs">>) /\ routed.handler # "none"
(***************************************************************************)
(* SpecTimeout: timeoutMiddleware(30000) and a handler of the tasks API    *)
(* (getAllTasks), for MaxTimed requests at a time.  How long the handler's *)
(* awaited work takes is open, so the timeout and the handler's answer     *)
(* come in either order.  res.json() on a response whose headers have been *)
(* sent throws ERR_HTTP_HEADERS_SENT.                                      *)
(***************************************************************************)
InitTimeout ==
    /\ file = <<>>
    /\ fileExists = TRUE
    /\ initialized = FALSE
    /\ now = 0
    /\ uuidCount = 0
    /\ req = [p \in Procs |-> IdleReq]
    /\ lastWriter = 0
    /\ track = {}
    /\ prev = NoPrev
    /\ query = NoQuery
    /\ stats = NoStats
    /\ listing = NoListing
    /\ OutsideIdle

\* what a step of SpecTimeout leaves alone
TimeoutFrame ==
    UNCHANGED <<file, fileExists, initialized, now, uuidCount, req, lastWriter,
                track, prev, query, stats, listing, validation, limiter, routed>>

\* the request r with the fields of timed
SetTimed(r, timed) == [process EXCEPT !.requests[r] = timed]

\* res.status(status).json(...) on a response whose headers have not been
\* sent
Send(timed, status) ==
    [timed EXCEPT !.headersSent = TRUE, !.responses = Append(@, status)]

\* timeoutMiddleware: setTimeout, res.on('finish'), next(); the handler
\* starts and awaits the repository
TimeoutMiddleware(r) ==
    /\ ~process.exited
    /\ process.requests[r].pc = "idle"
    /\ process' = SetTimed(r, [NoTimed EXCEPT !.pc = "handling", !.timer = TRUE])
    /\ TimeoutFrame

\* the callback of setTimeout: 408 unless the headers have been sent
TimerFires(r) ==
    LET timed == process.requests[r]
    IN  /\ ~process.exited
        /\ timed.timer
        /\ process' = SetTimed(r, [(IF ~timed.headersSent THEN Send(timed, 408) ELSE timed)
                                      EXCEPT !.timer = FALSE])
        /\ TimeoutFrame

\* the handler's await returns (ok) or throws, and the handler answers 200,
\* or 500 from its catch.  When the headers have been sent, res.json()
\* throws in the try and again in the catch: the promise of the handler is
\* rejected, nothing handles it, and the listener of 'unhandledRejection'
\* calls process.exit(1)
HandlerResponds(r, ok) ==
    LET timed == process.requests[r]
    IN  /\ ~process.exited
        /\ timed.pc = "handling"
        /\ IF timed.headersSent
           THEN process' = [exited |-> TRUE,
                            requests |-> [process.requests EXCEPT ![r].pc = "rejected"]]
           ELSE process' = SetTimed(r, [Send(timed, IF ok THEN 200 ELSE 500)
                                           EXCEPT !.pc = "answered"])
        /\ TimeoutFrame

\* the 'finish' event of a response that the handler has sent:
\* clearTimeout(timeout)
ResponseFinished(r) ==
    /\ ~process.exited
    /\ process.requests[r].pc = "answered"
    /\ process.requests[r].timer
    /\ process' = SetTimed(r, [process.requests[r] EXCEPT !.timer = FALSE])
    /\ TimeoutFrame

NextTimeout ==
    \E r \in 1..MaxTimed :
        \/ TimeoutMiddleware(r)
        \/ TimerFires(r)
        \/ \E ok \in BOOLEAN : HandlerResponds(r, ok)
        \/ ResponseFinished(r)

SpecTimeout == InitTimeout /\ [][NextTimeout]_vars

\* C30 as far as it holds: no request gets more than one response, and a
\* request that its handler has answered gets no 408
C30_AtMostOneResponseSent ==
    \A r \in 1..MaxTimed :
        LET timed == process.requests[r]
        IN  /\ Len(timed.responses) <= 1
            /\ timed.pc = "answered" => timed.responses \in {<<200>>, <<500>>}

\* C30: every request receives at most one response: after the timeout
\* middleware has answered 408 the handler that finishes later sends no
\* second response and does not bring about the exit of the process on an
\* unhandled rejection, and when the handler answers first no 408 is sent
C30_AtMostOneResponse ==
    /\ C30_AtMostOneResponseSent
    /\ ~process.exited

\* C30 witness: a request has been answered 408 by the timeout middleware
\* and its handler has finished after that
C30_Witness ==
    \E r \in 1..MaxTimed :
        /\ process.requests[r].responses = <<408>>
        /\ process.requests[r].pc = "rejected"
====
